---------------------------- MODULE Spec2Model ----------------------------
(***************************************************************************)
(* LabelLens: ingredient parsing, rule-based screening and the             *)
(* analyze_ingredients pipeline (src/labellens/analyzer.py, llm.py,        *)
(* profiles.py, config.py).                                                *)
(*                                                                         *)
(* A Python str is a sequence of one-character strings, so that strip,     *)
(* lower, the prefix regular expressions, the parenthesis scan and         *)
(* substring containment are computed character by character as the code   *)
(* computes them.                                                          *)
(***************************************************************************)
EXTENDS Integers, Sequences, FiniteSets, TLC

VARIABLES
    \* IngredientParser.parse, one loop iteration per step
    raw_ingredients,    \* the argument of parse
    text,               \* parse: text after strip and prefix removal
    pos,                \* parse: number of characters of text consumed
    scan,               \* parse: [ingredients, current, paren_depth]
    scan_pc,            \* "start" | "scan" | "done"
    \* the interpreter process
    hash_seed,          \* str hash randomisation: fixes the iteration order
                        \* of the keyword sets for the life of the process
    \* RuleBasedChecker.quick_screen
    screen_ingredients, \* the argument `ingredients` (list of str)
    screen_profile,     \* the argument `user_profile`
    rule_flags,         \* the flags returned by the latest call
    prev_flags,         \* the flags returned by the call before it
    screen_calls,       \* number of calls made with these arguments
    \* one call of analyze_ingredients
    in_ingredients,        \* argument: the raw label text
    in_user_profile,       \* argument: the UserProfile
    in_client,             \* argument: "None" | "GroqClient" | "Stub"
    in_stub,               \* what a stub client's analyze_ingredients does
    api_script,         \* what the Groq API does at each attempt
    GROQ_API_KEY,       \* config.GROQ_API_KEY is set
    client_singleton,   \* llm._client: "None" | "GroqClient"
    an_pc,              \* "idle" | "ready" | "returned"
    result,             \* the AnalysisResult returned, or NoResult
    raised,             \* the exception that left analyze_ingredients
    screened,           \* quick_screen was run
    analyze_calls,      \* invocations of the client's analyze_ingredients
    api_calls,          \* requests sent to the Groq API
    \* calls of IngredientParser.normalize
    norm_ingredient,    \* the argument of the first call
    norm_out,           \* what the latest call returned
    norm_calls,         \* calls made, each on the previous call's return
    \* render_health_score (app.py)
    shown_result,       \* the AnalysisResult on display
    shown_score,        \* the score computed for it
    shown_grade,        \* the letter grade computed for it
    score_pc,           \* "idle" | "ready" | "rendered"
    \* GroqClient.analyze_ingredients, one API attempt per step
    groq_ingredients,   \* argument: the raw label text
    groq_profile,       \* argument: the UserProfile
    groq_log,           \* what the Groq API did at each attempt so far
    groq_pc,            \* "idle" | "ready" | "calling" | "returned"
    groq_reply,         \* the dict returned
    \* generate_risk_report
    report_result,      \* the AnalysisResult reported on
    report_format,      \* the argument `format`
    report_lines,       \* the lines of the returned report, joined by "\n" in the code
    report_pc,          \* "idle" | "ready" | "generated"
    \* render_profile_selector: the built-in profile checkboxes
    selected_profile_types,\* st.session_state.selected_profile_types
    \* init_session_state: the scanner and its history
    show_onboarding,    \* st.session_state.show_onboarding
    current_view,       \* st.session_state.current_view
    analysis_result,    \* st.session_state.analysis_result: <<>> is None, <<r>> a result
    ingredients_input,  \* st.session_state.ingredients_input
    history_added,      \* 'history_added' in st.session_state
    scan_history,       \* st.session_state.scan_history
    clock,              \* ticks of datetime.now() read by add_to_history
    scans,              \* analysis results produced so far
    \* init_session_state: the custom profiles
    custom_profiles,    \* st.session_state.custom_profiles
    selected_custom_profiles \* st.session_state.selected_custom_profiles

parseVars == <<raw_ingredients, text, pos, scan, scan_pc>>

screenVars == <<screen_ingredients, screen_profile, rule_flags, prev_flags, screen_calls>>

analyzeInputs ==
    <<in_ingredients, in_user_profile, in_client, in_stub, api_script, GROQ_API_KEY>>

analyzeVars ==
    <<in_ingredients, in_user_profile, in_client, in_stub, api_script, GROQ_API_KEY,
      client_singleton, an_pc, result, raised, screened, analyze_calls, api_calls>>

normVars == <<norm_ingredient, norm_out, norm_calls>>

scoreVars == <<shown_result, shown_score, shown_grade, score_pc>>

groqVars == <<groq_ingredients, groq_profile, groq_log, groq_pc, groq_reply>>

reportVars == <<report_result, report_format, report_lines, report_pc>>

registryVars == <<selected_profile_types>>

sessionVars == <<show_onboarding, current_view, analysis_result, ingredients_input, history_added, scan_history, clock, scans>>

customVars == <<custom_profiles, selected_custom_profiles>>

vars == <<raw_ingredients, text, pos, scan, scan_pc, hash_seed,
          screen_ingredients, screen_profile, rule_flags, prev_flags, screen_calls,
          in_ingredients, in_user_profile, in_client, in_stub, api_script, GROQ_API_KEY,
          client_singleton, an_pc, result, raised, screened, analyze_calls, api_calls,
          norm_ingredient, norm_out, norm_calls,
          shown_result, shown_score, shown_grade, score_pc,
          groq_ingredients, groq_profile, groq_log, groq_pc, groq_reply,
          report_result, report_format, report_lines, report_pc,
          selected_profile_types,
          show_onboarding, current_view, analysis_result, ingredients_input, history_added, scan_history, clock, scans,
          custom_profiles, selected_custom_profiles>>

---------------------------------------------------------------------------
(* Bounds *)

\* longest generated label body (characters)
MaxLen == 4

\* longest ingredient list handed to quick_screen
MaxIngredients == 2

\* most active profiles in a screened UserProfile
MaxProfiles == 2

\* most quick_screen calls followed with the same arguments
MaxScreenCalls == 2

\* largest string hash seed a process is started with
MaxHashSeed == 3

\* most normalize calls chained on one ingredient
MaxNormCalls == 2

\* most risk flags, and most deception alerts, of a reported result
MaxReportItems == 2

\* most built-in profiles checked at a time
MaxSelected == 2

\* most analysis results of one session
MaxScans == 3

\* most calls of add_to_history
MaxAdds == 22

\* most custom profiles held at a time
MaxCustom == 2

\* most ids in selected_custom_profiles
MaxActive == 3

\* most risk flags of a displayed result
MaxFlags == 5

\* most deception alerts of a displayed result
MaxAlerts == 4

---------------------------------------------------------------------------
(* Python str primitives *)

\* Python None passed where a str is expected; distinct from every str
\* because its single element is not one character
None == <<"<None>">>

Whitespace == {" ", "\t", "\n"}

IsSpace(c) == c \in Whitespace

UpperCase ==
    <<"A","B","C","D","E","F","G","H","I","J","K","L","M",
      "N","O","P","Q","R","S","T","U","V","W","X","Y","Z">>

LowerCase ==
    <<"a","b","c","d","e","f","g","h","i","j","k","l","m",
      "n","o","p","q","r","s","t","u","v","w","x","y","z">>

\* str.lower() on one character
LowerChar(c) ==
    IF \E i \in 1..26 : UpperCase[i] = c
    THEN LowerCase[CHOOSE i \in 1..26 : UpperCase[i] = c]
    ELSE c

\* str.lower()
Lower(s) == [i \in 1..Len(s) |-> LowerChar(s[i])]

SetMin(S) == CHOOSE m \in S : \A x \in S : m <= x

SetMax(S) == CHOOSE m \in S : \A x \in S : m >= x

\* str.lstrip()
LStrip(s) ==
    LET idx == {i \in 1..Len(s) : ~IsSpace(s[i])}
    IN  IF idx = {} THEN <<>> ELSE SubSeq(s, SetMin(idx), Len(s))

\* str.strip() that leaves trailing whitespace
Strip_LeadingOnly(s) ==
    LET idx == {i \in 1..Len(s) : ~IsSpace(s[i])}
    IN  IF idx = {} THEN <<>> ELSE SubSeq(s, SetMin(idx), Len(s))

\* str.strip()
Strip(s) ==
    LET idx == {i \in 1..Len(s) : ~IsSpace(s[i])}
    IN  IF idx = {} THEN <<>> ELSE SubSeq(s, SetMin(idx), SetMax(idx))

\* `sub in s` for two str
Contains(sub, s) ==
    \E i \in 0..(Len(s) - Len(sub)) : \A j \in 1..Len(sub) : s[i + j] = sub[j]

\* truthiness of an Optional[str]
Falsy(s) == s = None \/ s = <<>>

---------------------------------------------------------------------------
(* IngredientParser.parse *)

Delimiters == {",", ";"}

IsDelim(c) == c \in Delimiters

PrefixIngredient == <<"i","n","g","r","e","d","i","e","n","t">>

PrefixContain == <<"c","o","n","t","a","i","n">>

\* re.sub(r"^<word>s?\s*:\s*", "", s, flags=re.IGNORECASE)
RemovePrefix(s, word) ==
    IF ~(Len(s) >= Len(word) /\ \A i \in 1..Len(word) : LowerChar(s[i]) = word[i])
    THEN s
    ELSE LET r1 == SubSeq(s, Len(word) + 1, Len(s))
             r2 == IF r1 # <<>> /\ LowerChar(r1[1]) = "s" THEN Tail(r1) ELSE r1
             r3 == LStrip(r2)
         IN  IF r3 # <<>> /\ r3[1] = ":" THEN LStrip(Tail(r3)) ELSE s

\* the loop over prefixes_to_remove: both patterns are applied in turn
StripPrefixes(s) == RemovePrefix(RemovePrefix(s, PrefixIngredient), PrefixContain)

ScanStart == [ingredients |-> <<>>, current |-> <<>>, paren_depth |-> 0]

\* appends current.strip() without testing that it is non-empty
Emit_KeepEmpty(st) == Append(st.ingredients, Strip(st.current))

\* appends current.strip() when it is non-empty
Emit(st) ==
    IF Strip(st.current) # <<>>
    THEN Append(st.ingredients, Strip(st.current))
    ELSE st.ingredients

\* one iteration that folds the case of what it keeps
ParseChar_Folds(st, char) ==
    IF char = "("
    THEN [st EXCEPT !.paren_depth = @ + 1, !.current = Append(@, char)]
    ELSE IF char = ")"
    THEN [st EXCEPT !.paren_depth = @ - 1, !.current = Append(@, char)]
    ELSE IF IsDelim(char) /\ st.paren_depth = 0
    THEN [st EXCEPT !.ingredients = Emit(st), !.current = <<>>]
    ELSE [st EXCEPT !.current = Append(@, LowerChar(char))]

\* one iteration of `for char in text`
ParseChar(st, char) ==
    IF char = "("
    THEN [st EXCEPT !.paren_depth = @ + 1, !.current = Append(@, char)]
    ELSE IF char = ")"
    THEN [st EXCEPT !.paren_depth = @ - 1, !.current = Append(@, char)]
    ELSE IF IsDelim(char) /\ st.paren_depth = 0
    THEN [st EXCEPT !.ingredients = Emit(st), !.current = <<>>]
    ELSE [st EXCEPT !.current = Append(@, char)]

RECURSIVE ParseLoop(_, _)
\* the whole loop, from scan state st over the characters of s
ParseLoop(st, s) ==
    IF s = <<>> THEN st ELSE ParseLoop(ParseChar(st, Head(s)), Tail(s))

\* IngredientParser.parse(raw_ingredients)
Parse(raw) ==
    IF Falsy(raw)
    THEN <<>>
    ELSE Emit(ParseLoop(ScanStart, StripPrefixes(Strip(raw))))

---------------------------------------------------------------------------
(* IngredientParser.normalize *)

RECURSIVE RemoveParens_FirstOnly(_)
\* the substitution applied to the first parenthetical only
RemoveParens_FirstOnly(s) ==
    IF s = <<>> THEN <<>>
    ELSE LET closes == {j \in 2..Len(s) : s[j] = ")"}
         IN  IF Head(s) = "(" /\ closes # {}
             THEN SubSeq(s, SetMin(closes) + 1, Len(s))
             ELSE <<Head(s)>> \o RemoveParens_FirstOnly(Tail(s))

RECURSIVE RemoveParens(_)
\* re.sub(r'\([^)]*\)', '', s): each '(' that has a ')' after it is removed
\* together with everything up to the first such ')'
RemoveParens(s) ==
    IF s = <<>> THEN <<>>
    ELSE LET closes == {j \in 2..Len(s) : s[j] = ")"}
         IN  IF Head(s) = "(" /\ closes # {}
             THEN RemoveParens(SubSeq(s, SetMin(closes) + 1, Len(s)))
             ELSE <<Head(s)>> \o RemoveParens(Tail(s))

RECURSIVE CollapseSpaces(_)
\* ' '.join(s.split()) on an already stripped str
CollapseSpaces(s) ==
    IF s = <<>> THEN <<>>
    ELSE IF IsSpace(Head(s))
    THEN <<" ">> \o CollapseSpaces(LStrip(s))
    ELSE <<Head(s)>> \o CollapseSpaces(Tail(s))

\* IngredientParser.normalize(ingredient)
Normalize(ingredient) == CollapseSpaces(Strip(Lower(RemoveParens(ingredient))))

---------------------------------------------------------------------------
(* Profiles (profiles.py) *)

\* ProfileType, in declaration order
ProfileType ==
    <<"TYPE_2_DIABETES", "PCOS", "HYPERTENSION", "IBS_LOW_FODMAP", "CELIAC",
      "NUT_ALLERGY", "KIDNEY_DISEASE", "KETO", "AVOID_SEED_OILS",
      "THYROID_HYPOTHYROID", "HEART_DISEASE", "LACTOSE_INTOLERANCE",
      "GOUT_HIGH_URIC_ACID", "FATTY_LIVER", "GASTRITIS_GERD">>

Range(f) == {f[i] : i \in DOMAIN f}

\* UserProfile(active_profiles, custom_restrictions)
UserProfile(active, custom) ==
    [active_profiles |-> active, custom_restrictions |-> custom]

---------------------------------------------------------------------------
(* RuleBasedChecker (analyzer.py) *)

\* Known sugar aliases, in the order of the set literal
SUGAR_ALIASES ==
    << <<"s","u","c","r","o","s","e">>,
       <<"g","l","u","c","o","s","e">>,
       <<"f","r","u","c","t","o","s","e">>,
       <<"d","e","x","t","r","o","s","e">>,
       <<"m","a","l","t","o","s","e">>,
       <<"l","a","c","t","o","s","e">>,
       <<"c","o","r","n"," ","s","y","r","u","p">>,
       <<"h","i","g","h"," ","f","r","u","c","t","o","s","e"," ","c","o","r","n"," ","s","y","r","u","p">>,
       <<"h","f","c","s">>,
       <<"c","a","n","e"," ","s","u","g","a","r">>,
       <<"c","a","n","e"," ","j","u","i","c","e">>,
       <<"e","v","a","p","o","r","a","t","e","d"," ","c","a","n","e"," ","j","u","i","c","e">>,
       <<"b","r","o","w","n"," ","r","i","c","e"," ","s","y","r","u","p">>,
       <<"m","a","l","t"," ","s","y","r","u","p">>,
       <<"b","a","r","l","e","y"," ","m","a","l","t">>,
       <<"m","a","l","t","o","d","e","x","t","r","i","n">>,
       <<"d","e","x","t","r","i","n">>,
       <<"t","r","e","a","c","l","e">>,
       <<"m","o","l","a","s","s","e","s">>,
       <<"a","g","a","v","e">>,
       <<"a","g","a","v","e"," ","n","e","c","t","a","r">>,
       <<"h","o","n","e","y">>,
       <<"m","a","p","l","e"," ","s","y","r","u","p">>,
       <<"c","o","c","o","n","u","t"," ","s","u","g","a","r">>,
       <<"d","a","t","e"," ","s","u","g","a","r">>,
       <<"t","u","r","b","i","n","a","d","o">>,
       <<"m","u","s","c","o","v","a","d","o">>,
       <<"d","e","m","e","r","a","r","a">>,
       <<"p","a","n","e","l","a">>,
       <<"j","a","g","g","e","r","y">>,
       <<"s","u","c","a","n","a","t">>,
       <<"f","r","u","i","t"," ","j","u","i","c","e"," ","c","o","n","c","e","n","t","r","a","t","e">>,
       <<"g","r","a","p","e"," ","j","u","i","c","e"," ","c","o","n","c","e","n","t","r","a","t","e">> >>

\* Known seed oils, in the order of the set literal
SEED_OILS ==
    << <<"s","o","y","b","e","a","n"," ","o","i","l">>,
       <<"c","a","n","o","l","a"," ","o","i","l">>,
       <<"r","a","p","e","s","e","e","d"," ","o","i","l">>,
       <<"s","u","n","f","l","o","w","e","r"," ","o","i","l">>,
       <<"s","a","f","f","l","o","w","e","r"," ","o","i","l">>,
       <<"c","o","r","n"," ","o","i","l">>,
       <<"c","o","t","t","o","n","s","e","e","d"," ","o","i","l">>,
       <<"g","r","a","p","e","s","e","e","d"," ","o","i","l">>,
       <<"r","i","c","e"," ","b","r","a","n"," ","o","i","l">>,
       <<"v","e","g","e","t","a","b","l","e"," ","o","i","l">> >>

\* Known high-FODMAP ingredients, in the order of the set literal
HIGH_FODMAP ==
    << <<"o","n","i","o","n">>,
       <<"g","a","r","l","i","c">>,
       <<"w","h","e","a","t">>,
       <<"r","y","e">>,
       <<"b","a","r","l","e","y">>,
       <<"i","n","u","l","i","n">>,
       <<"c","h","i","c","o","r","y">>,
       <<"f","r","u","c","t","o","o","l","i","g","o","s","a","c","c","h","a","r","i","d","e","s">>,
       <<"f","o","s">>,
       <<"g","a","l","a","c","t","o","o","l","i","g","o","s","a","c","c","h","a","r","i","d","e","s">>,
       <<"g","o","s">>,
       <<"h","o","n","e","y">>,
       <<"a","g","a","v","e">>,
       <<"h","i","g","h"," ","f","r","u","c","t","o","s","e"," ","c","o","r","n"," ","s","y","r","u","p">>,
       <<"a","p","p","l","e">>,
       <<"p","e","a","r">>,
       <<"m","a","n","g","o">>,
       <<"w","a","t","e","r","m","e","l","o","n">>,
       <<"s","o","r","b","i","t","o","l">>,
       <<"m","a","n","n","i","t","o","l">>,
       <<"x","y","l","i","t","o","l">>,
       <<"m","a","l","t","i","t","o","l">>,
       <<"i","s","o","m","a","l","t">>,
       <<"l","a","c","t","i","t","o","l">>,
       <<"m","u","s","h","r","o","o","m">>,
       <<"c","a","u","l","i","f","l","o","w","e","r">>,
       <<"a","r","t","i","c","h","o","k","e">> >>

\* Known gluten sources, in the order of the set literal
GLUTEN_SOURCES ==
    << <<"w","h","e","a","t">>,
       <<"b","a","r","l","e","y">>,
       <<"r","y","e">>,
       <<"m","a","l","t">>,
       <<"b","r","e","w","e","r","'","s"," ","y","e","a","s","t">>,
       <<"t","r","i","t","i","c","a","l","e">>,
       <<"s","p","e","l","t">>,
       <<"k","a","m","u","t">>,
       <<"s","e","m","o","l","i","n","a">>,
       <<"d","u","r","u","m">>,
       <<"f","a","r","i","n","a">>,
       <<"b","u","l","g","u","r">>,
       <<"c","o","u","s","c","o","u","s">>,
       <<"s","e","i","t","a","n">>,
       <<"f","u">> >>

\* the four checks of quick_screen, in the order the loop body makes them
Categories == <<"sugar", "seed_oil", "high_fodmap", "gluten">>

\* the keyword set each check iterates over
Keywords(cat) ==
    CASE cat = "sugar"       -> SUGAR_ALIASES
      [] cat = "seed_oil"    -> SEED_OILS
      [] cat = "high_fodmap" -> HIGH_FODMAP
      [] cat = "gluten"      -> GLUTEN_SOURCES

\* the RiskType each check puts in the flag's "type"
FlagType(cat) ==
    CASE cat = "sugar"       -> "hidden_sugar"
      [] cat = "seed_oil"    -> "seed_oil"
      [] cat = "high_fodmap" -> "high_fodmap"
      [] cat = "gluten"      -> "contains_gluten"

\* sugar_profiles
sugar_profiles == {"TYPE_2_DIABETES", "PCOS", "KETO"}

\* the sugar check without PCOS in sugar_profiles
CategoryEnabled_NoPcos(cat, user_profile) ==
    CASE cat = "sugar"       ->
             {"TYPE_2_DIABETES", "KETO"} \cap Range(user_profile.active_profiles) # {}
      [] cat = "seed_oil"    -> "AVOID_SEED_OILS" \in Range(user_profile.active_profiles)
      [] cat = "high_fodmap" -> "IBS_LOW_FODMAP" \in Range(user_profile.active_profiles)
      [] cat = "gluten"      -> "CELIAC" \in Range(user_profile.active_profiles)

\* the `if` that guards each check
CategoryEnabled(cat, user_profile) ==
    CASE cat = "sugar"       ->
             sugar_profiles \cap Range(user_profile.active_profiles) # {}
      [] cat = "seed_oil"    -> "AVOID_SEED_OILS" \in Range(user_profile.active_profiles)
      [] cat = "high_fodmap" -> "IBS_LOW_FODMAP" \in Range(user_profile.active_profiles)
      [] cat = "gluten"      -> "CELIAC" \in Range(user_profile.active_profiles)

\* The keyword sets are Python sets of str: `for kw in cls.SET` visits them
\* in an order that the interpreter's string hash seed fixes at start-up and
\* that differs from one process to the next.  The order under seed k is the
\* literal rotated by k: seed 0 visits the keywords as written, the other
\* seeds bring later keywords in front of earlier ones.
IterationOrder(cat, seed) ==
    LET lit == Keywords(cat)
        n   == Len(lit)
        r   == seed % n
    IN  [i \in 1..n |-> lit[((i - 1 + r) % n) + 1]]

\* the hash seeds a process can start with
HashSeeds == 0..MaxHashSeed

\* the dict appended to flags
Flag(ingredient, type, match) ==
    [ingredient |-> ingredient, type |-> type, match |-> match, rule_based |-> TRUE]

RECURSIVE ScanKeywords_NoBreak(_, _, _, _)
\* the keyword loop with its `break` removed
ScanKeywords_NoBreak(order, normalized, ingredient, type) ==
    IF order = <<>> THEN <<>>
    ELSE IF Contains(Head(order), normalized)
    THEN <<Flag(ingredient, type, Head(order))>>
             \o ScanKeywords_NoBreak(Tail(order), normalized, ingredient, type)
    ELSE ScanKeywords_NoBreak(Tail(order), normalized, ingredient, type)

RECURSIVE ScanKeywords(_, _, _, _)
\* `for kw in cls.SET: if kw in normalized: flags.append(...); break`
ScanKeywords(order, normalized, ingredient, type) ==
    IF order = <<>> THEN <<>>
    ELSE IF Contains(Head(order), normalized)
    THEN <<Flag(ingredient, type, Head(order))>>
    ELSE ScanKeywords(Tail(order), normalized, ingredient, type)

\* one check of the loop body for one ingredient
CheckCategory(cat, ingredient, user_profile, seed) ==
    IF CategoryEnabled(cat, user_profile)
    THEN ScanKeywords(IterationOrder(cat, seed), Normalize(ingredient),
                      ingredient, FlagType(cat))
    ELSE <<>>

\* the body of the loop with its four checks in the opposite order
IngredientFlags_Reversed(ingredient, user_profile, seed) ==
    CheckCategory(Categories[4], ingredient, user_profile, seed)
        \o CheckCategory(Categories[3], ingredient, user_profile, seed)
        \o CheckCategory(Categories[2], ingredient, user_profile, seed)
        \o CheckCategory(Categories[1], ingredient, user_profile, seed)

\* the body of `for ingredient in ingredients`
IngredientFlags(ingredient, user_profile, seed) ==
    CheckCategory(Categories[1], ingredient, user_profile, seed)
        \o CheckCategory(Categories[2], ingredient, user_profile, seed)
        \o CheckCategory(Categories[3], ingredient, user_profile, seed)
        \o CheckCategory(Categories[4], ingredient, user_profile, seed)

RECURSIVE QuickScreen(_, _, _)
\* RuleBasedChecker.quick_screen(ingredients, user_profile) in a process
\* started with the given hash seed
QuickScreen(ingredients, user_profile, seed) ==
    IF ingredients = <<>> THEN <<>>
    ELSE IngredientFlags(Head(ingredients), user_profile, seed)
             \o QuickScreen(Tail(ingredients), user_profile, seed)

---------------------------------------------------------------------------
(* Profile registry and display names (profiles.py) *)

\* a registry in which every profile is shown under the same name
display_name_Generic(pt) == <<"P","r","o","f","i","l","e">>

\* HEALTH_PROFILES[pt].display_name
display_name(pt) ==
    CASE pt = "TYPE_2_DIABETES" ->
             <<"T","y","p","e"," ","2"," ","D","i","a","b","e","t","e","s">>
      [] pt = "PCOS" ->
             <<"P","C","O","S"," ","(","P","o","l","y","c","y","s","t","i","c"," ","O","v","a","r","y"," ","S","y","n","d","r","o","m","e",")">>
      [] pt = "HYPERTENSION" ->
             <<"H","y","p","e","r","t","e","n","s","i","o","n"," ","(","H","i","g","h"," ","B","l","o","o","d"," ","P","r","e","s","s","u","r","e",")">>
      [] pt = "IBS_LOW_FODMAP" ->
             <<"I","B","S"," ","(","L","o","w","-","F","O","D","M","A","P"," ","D","i","e","t",")">>
      [] pt = "CELIAC" ->
             <<"C","e","l","i","a","c"," ","D","i","s","e","a","s","e"," ","(","G","l","u","t","e","n","-","F","r","e","e",")">>
      [] pt = "NUT_ALLERGY" ->
             <<"N","u","t"," ","A","l","l","e","r","g","y">>
      [] pt = "KIDNEY_DISEASE" ->
             <<"K","i","d","n","e","y"," ","D","i","s","e","a","s","e"," ","(","R","e","n","a","l"," ","D","i","e","t",")">>
      [] pt = "KETO" ->
             <<"K","e","t","o","g","e","n","i","c"," ","D","i","e","t">>
      [] pt = "AVOID_SEED_OILS" ->
             <<"A","v","o","i","d"," ","S","e","e","d"," ","O","i","l","s">>
      [] pt = "THYROID_HYPOTHYROID" ->
             <<"T","h","y","r","o","i","d"," ","(","H","y","p","o","t","h","y","r","o","i","d","i","s","m",")">>
      [] pt = "HEART_DISEASE" ->
             <<"H","e","a","r","t"," ","D","i","s","e","a","s","e"," ","(","C","a","r","d","i","o","v","a","s","c","u","l","a","r",")">>
      [] pt = "LACTOSE_INTOLERANCE" ->
             <<"L","a","c","t","o","s","e"," ","I","n","t","o","l","e","r","a","n","c","e">>
      [] pt = "GOUT_HIGH_URIC_ACID" ->
             <<"G","o","u","t"," ","/"," ","H","i","g","h"," ","U","r","i","c"," ","A","c","i","d">>
      [] pt = "FATTY_LIVER" ->
             <<"F","a","t","t","y"," ","L","i","v","e","r"," ","(","N","A","F","L","D",")">>
      [] pt = "GASTRITIS_GERD" ->
             <<"G","a","s","t","r","i","t","i","s"," ","/"," ","A","c","i","d"," ","R","e","f","l","u","x"," ","(","G","E","R","D",")">>

\* the keys of the HEALTH_PROFILES literal with the profile_type each
\* HealthProfile is built with, in the literal's order
RegistryEntries ==
    << [key |-> "TYPE_2_DIABETES",     profile_type |-> "TYPE_2_DIABETES"],
       [key |-> "PCOS",                profile_type |-> "PCOS"],
       [key |-> "HYPERTENSION",        profile_type |-> "HYPERTENSION"],
       [key |-> "IBS_LOW_FODMAP",      profile_type |-> "IBS_LOW_FODMAP"],
       [key |-> "CELIAC",              profile_type |-> "CELIAC"],
       [key |-> "NUT_ALLERGY",         profile_type |-> "NUT_ALLERGY"],
       [key |-> "KIDNEY_DISEASE",      profile_type |-> "KIDNEY_DISEASE"],
       [key |-> "KETO",                profile_type |-> "KETO"],
       [key |-> "AVOID_SEED_OILS",     profile_type |-> "AVOID_SEED_OILS"],
       [key |-> "THYROID_HYPOTHYROID", profile_type |-> "THYROID_HYPOTHYROID"],
       [key |-> "HEART_DISEASE",       profile_type |-> "HEART_DISEASE"],
       [key |-> "LACTOSE_INTOLERANCE", profile_type |-> "LACTOSE_INTOLERANCE"],
       [key |-> "GOUT_HIGH_URIC_ACID", profile_type |-> "GOUT_HIGH_URIC_ACID"],
       [key |-> "FATTY_LIVER",         profile_type |-> "FATTY_LIVER"],
       [key |-> "GASTRITIS_GERD",      profile_type |-> "GASTRITIS_GERD"] >>

\* HEALTH_PROFILES: the dict the literal builds, a later entry replacing an
\* earlier one with the same key
HEALTH_PROFILES ==
    [k \in {RegistryEntries[i].key : i \in DOMAIN RegistryEntries} |->
        LET last == SetMax({i \in DOMAIN RegistryEntries : RegistryEntries[i].key = k})
        IN  [profile_type |-> RegistryEntries[last].profile_type,
             display_name |-> display_name(k)]]

\* the keys of HEALTH_PROFILES in insertion order
RegistryKeys ==
    LET firsts == {i \in DOMAIN RegistryEntries :
                      \A j \in 1..(i - 1) : RegistryEntries[j].key # RegistryEntries[i].key}
        Nth(n) == CHOOSE i \in firsts : Cardinality({j \in firsts : j < i}) = n - 1
    IN  [n \in 1..Cardinality(firsts) |-> RegistryEntries[Nth(n)].key]

\* get_available_profiles(): display name -> ProfileType, a later profile
\* replacing an earlier one with the same display name
get_available_profiles ==
    [name \in {HEALTH_PROFILES[k].display_name : k \in DOMAIN HEALTH_PROFILES} |->
        RegistryKeys[SetMax({n \in DOMAIN RegistryKeys :
                                HEALTH_PROFILES[RegistryKeys[n]].display_name = name})]]

\* the display names in the order of available_profiles.items()
AvailableNames ==
    LET firsts == {n \in DOMAIN RegistryKeys :
                      \A m \in 1..(n - 1) :
                          HEALTH_PROFILES[RegistryKeys[m]].display_name
                              # HEALTH_PROFILES[RegistryKeys[n]].display_name}
        Nth(n) == CHOOSE i \in firsts : Cardinality({j \in firsts : j < i}) = n - 1
    IN  [n \in 1..Cardinality(firsts) |-> HEALTH_PROFILES[RegistryKeys[Nth(n)]].display_name]

\* selected_types: the types of the checked display names, in the order
\* of available_profiles.items()
SelectedTypes(checked) ==
    LET picked == SelectSeq(AvailableNames, LAMBDA name : name \in checked)
    IN  [i \in DOMAIN picked |-> get_available_profiles[picked[i]]]

\* the part of a str before its first ':' (restriction.split(":")[0])
BeforeColon(s) ==
    LET colons == {i \in 1..Len(s) : s[i] = ":"}
    IN  IF colons = {} THEN s ELSE SubSeq(s, 1, SetMin(colons) - 1)

\* the name get_display_names gives one custom restriction
CustomName(restriction) ==
    IF \E i \in 1..Len(restriction) : restriction[i] = ":"
    THEN <<"C","u","s","t","o","m",":"," ">> \o Strip(BeforeColon(restriction))
    ELSE <<"C","u","s","t","o","m"," ","P","r","o","f","i","l","e">>

\* UserProfile.get_display_names
get_display_names(user_profile) ==
    [i \in 1..Len(user_profile.active_profiles) |->
        display_name(user_profile.active_profiles[i])]
    \o [i \in 1..Len(user_profile.custom_restrictions) |->
        CustomName(user_profile.custom_restrictions[i])]

---------------------------------------------------------------------------
(* Configuration (config.py) *)

MAX_RETRIES == 3

Verdict == [SAFE |-> "SAFE", CAUTION |-> "CAUTION", AVOID |-> "AVOID"]

---------------------------------------------------------------------------
(* Python dict and Optional values *)

\* a Python None where a message str is expected
NoneText == "<None>"

\* the empty dict
EmptyDict == <<>>

\* d.get(k, default)
Get(d, k, default) == IF k \in DOMAIN d THEN d[k] ELSE default

---------------------------------------------------------------------------
(* GroqClient (llm.py) *)

\* The confidence score is carried in hundredths: 0.0 is 0, 0.5 is 50.
\* A summary is the sequence of the pieces an f-string joins.

\* GroqClient._validate_and_normalize(result)
ValidateAndNormalize(api_result) ==
    LET verdict == Get(api_result, "overall_verdict", Verdict.CAUTION)
    IN  [overall_verdict |->
             IF verdict \notin {Verdict.SAFE, Verdict.CAUTION, Verdict.AVOID}
             THEN Verdict.CAUTION ELSE verdict,
         confidence_score |-> Get(api_result, "confidence_score", 50),
         risk_flags |-> Get(api_result, "risk_flags", <<>>),
         deception_alerts |-> Get(api_result, "deception_alerts", <<>>),
         uncertainty_flags |-> Get(api_result, "uncertainty_flags", <<>>),
         safe_for_general_public |-> Get(api_result, "safe_for_general_public", TRUE),
         user_specific_warning |-> Get(api_result, "user_specific_warning", FALSE),
         smart_swaps |-> Get(api_result, "smart_swaps", <<>>),
         summary |-> Get(api_result, "summary", <<"Analysis complete.">>),
         error |-> FALSE]

\* GroqClient._empty_result(message)
EmptyResult(message) ==
    [overall_verdict |-> Verdict.CAUTION,
     confidence_score |-> 0,
     risk_flags |-> <<>>,
     deception_alerts |-> <<>>,
     uncertainty_flags |-> <<>>,
     safe_for_general_public |-> TRUE,
     user_specific_warning |-> FALSE,
     smart_swaps |-> <<>>,
     summary |-> <<message>>,
     error |-> TRUE]

\* GroqClient._error_result(error_message)
ErrorResult(error_message) ==
    [overall_verdict |-> Verdict.CAUTION,
     confidence_score |-> 0,
     risk_flags |-> <<>>,
     deception_alerts |-> <<>>,
     uncertainty_flags |-> <<>>,
     safe_for_general_public |-> TRUE,
     user_specific_warning |-> FALSE,
     smart_swaps |-> <<>>,
     summary |-> <<"Analysis failed: ", error_message>>,
     error |-> TRUE,
     error_message |-> error_message]

\* exception types the @retry decorator retries on
\* a retry condition that covers every exception
RetriedExceptions_Any == {"JSONDecodeError", "ValueError", "APIConnectionError"}

\* retry_if_exception_type((json.JSONDecodeError, ValueError))
RetriedExceptions == {"JSONDecodeError", "ValueError"}

\* An API script is what the Groq API does at each attempt of one call of
\* _call_groq: [kind |-> "response", body |-> dict] or an exception
\* [kind |-> type, text |-> message].

RECURSIVE CallGroq(_, _)
\* GroqClient._call_groq under @retry, from the given attempt on:
\* [raised, text, body, attempts]
CallGroq(script, attempt) ==
    LET outcome == script[attempt]
    IN  IF outcome.kind = "response"
        THEN [raised |-> FALSE, text |-> "", body |-> outcome.body, attempts |-> attempt]
        ELSE IF outcome.kind \in RetriedExceptions
        THEN IF attempt < MAX_RETRIES
             THEN CallGroq(script, attempt + 1)
             ELSE [raised |-> TRUE, text |-> "RetryError", body |-> EmptyDict,
                   attempts |-> attempt]
        ELSE [raised |-> TRUE, text |-> outcome.text, body |-> EmptyDict,
              attempts |-> attempt]

\* GroqClient.analyze_ingredients(ingredients, user_profile):
\* [dict, api_calls]
GroqAnalyze(ingredients, user_profile, script) ==
    IF Falsy(ingredients) \/ Strip(ingredients) = <<>>
    THEN [dict |-> EmptyResult("No ingredients provided"), api_calls |-> 0]
    ELSE IF user_profile.active_profiles = <<>>
    THEN [dict |-> EmptyResult("No health profiles selected"), api_calls |-> 0]
    ELSE LET call == CallGroq(script, 1)
         IN  IF call.raised
             THEN [dict |-> ErrorResult(call.text), api_calls |-> call.attempts]
             ELSE [dict |-> ValidateAndNormalize(call.body), api_calls |-> call.attempts]

---------------------------------------------------------------------------
(* analyze_ingredients (analyzer.py) *)

\* the conversion with "low" as the default severity
RiskFlag_DefaultsLow(rf) ==
    [ingredient |-> Get(rf, "ingredient", "Unknown"),
     risk_type |-> Get(rf, "risk_type", "unknown"),
     severity |-> Get(rf, "severity", "low"),
     explanation |-> Get(rf, "explanation", ""),
     relevant_profiles |-> Get(rf, "relevant_profiles", <<>>)]

\* RiskFlag(...) from one record of llm_result["risk_flags"]
RiskFlag(rf) ==
    [ingredient |-> Get(rf, "ingredient", "Unknown"),
     risk_type |-> Get(rf, "risk_type", "unknown"),
     severity |-> Get(rf, "severity", "medium"),
     explanation |-> Get(rf, "explanation", ""),
     relevant_profiles |-> Get(rf, "relevant_profiles", <<>>)]

\* DeceptionAlert(...) from one record of llm_result["deception_alerts"]
DeceptionAlert(da) ==
    [claim |-> Get(da, "claim", ""),
     reality |-> Get(da, "reality", ""),
     concern_level |-> Get(da, "concern_level", "medium")]

\* SmartSwap(...) from one record of llm_result["smart_swaps"]
SmartSwap(ss) ==
    [avoid |-> Get(ss, "avoid", ""),
     try_instead |-> Get(ss, "try_instead", ""),
     reason |-> Get(ss, "reason", "")]

\* the result of the `if not parsed` return
EmptyInputResult ==
    [overall_verdict |-> Verdict.CAUTION,
     confidence_score |-> 0,
     risk_flags |-> <<>>,
     deception_alerts |-> <<>>,
     uncertainty_flags |-> <<>>,
     safe_for_general_public |-> TRUE,
     user_specific_warning |-> FALSE,
     smart_swaps |-> <<>>,
     summary |-> <<"No ingredients could be parsed from the input.">>,
     analyzed_profiles |-> <<>>,
     timestamp |-> "utcnow",
     ingredient_count |-> 0,
     error |-> TRUE,
     error_message |-> "No ingredients found"]

\* the no-profile return without the parsed count
NoProfileResult_NoCount(parsed) ==
    [overall_verdict |-> Verdict.CAUTION,
     confidence_score |-> 0,
     risk_flags |-> <<>>,
     deception_alerts |-> <<>>,
     uncertainty_flags |-> <<>>,
     safe_for_general_public |-> TRUE,
     user_specific_warning |-> FALSE,
     smart_swaps |-> <<>>,
     summary |-> <<"Please select at least one health profile to analyze ingredients.">>,
     analyzed_profiles |-> <<>>,
     timestamp |-> "utcnow",
     ingredient_count |-> 0,
     error |-> TRUE,
     error_message |-> "No profiles selected"]

\* the result of the no-profile return
NoProfileResult(parsed) ==
    [overall_verdict |-> Verdict.CAUTION,
     confidence_score |-> 0,
     risk_flags |-> <<>>,
     deception_alerts |-> <<>>,
     uncertainty_flags |-> <<>>,
     safe_for_general_public |-> TRUE,
     user_specific_warning |-> FALSE,
     smart_swaps |-> <<>>,
     summary |-> <<"Please select at least one health profile to analyze ingredients.">>,
     analyzed_profiles |-> <<>>,
     timestamp |-> "utcnow",
     ingredient_count |-> Len(parsed),
     error |-> TRUE,
     error_message |-> "No profiles selected"]

\* the result of the `if llm_result.get("error")` return
CollaboratorErrorResult(llm_result, parsed, user_profile) ==
    [overall_verdict |-> Verdict.CAUTION,
     confidence_score |-> 0,
     risk_flags |-> <<>>,
     deception_alerts |-> <<>>,
     uncertainty_flags |-> <<>>,
     safe_for_general_public |-> TRUE,
     user_specific_warning |-> FALSE,
     smart_swaps |-> <<>>,
     summary |-> Get(llm_result, "summary", <<"Analysis failed">>),
     analyzed_profiles |-> get_display_names(user_profile),
     timestamp |-> "utcnow",
     ingredient_count |-> Len(parsed),
     error |-> TRUE,
     error_message |-> Get(llm_result, "error_message", "Unknown error")]

\* the final return with the rule-based flags appended to the
\* collaborator's
SuccessResult_MergesScreen(llm_result, parsed, user_profile) ==
    [overall_verdict |-> Get(llm_result, "overall_verdict", Verdict.CAUTION),
     confidence_score |-> Get(llm_result, "confidence_score", 50),
     risk_flags |-> [i \in DOMAIN Get(llm_result, "risk_flags", <<>>) |-> RiskFlag(Get(llm_result, "risk_flags", <<>>)[i])]
                    \o QuickScreen(parsed, user_profile, 0),
     deception_alerts |-> [i \in DOMAIN Get(llm_result, "deception_alerts", <<>>) |-> DeceptionAlert(Get(llm_result, "deception_alerts", <<>>)[i])],
     uncertainty_flags |-> Get(llm_result, "uncertainty_flags", <<>>),
     safe_for_general_public |-> Get(llm_result, "safe_for_general_public", TRUE),
     user_specific_warning |-> Get(llm_result, "user_specific_warning", FALSE),
     smart_swaps |-> [i \in DOMAIN Get(llm_result, "smart_swaps", <<>>) |-> SmartSwap(Get(llm_result, "smart_swaps", <<>>)[i])],
     summary |-> Get(llm_result, "summary", <<"Analysis complete.">>),
     analyzed_profiles |-> get_display_names(user_profile),
     timestamp |-> "utcnow",
     ingredient_count |-> Len(parsed),
     error |-> FALSE,
     error_message |-> NoneText]

\* the final return
SuccessResult(llm_result, parsed, user_profile) ==
    [overall_verdict |-> Get(llm_result, "overall_verdict", Verdict.CAUTION),
     confidence_score |-> Get(llm_result, "confidence_score", 50),
     risk_flags |-> [i \in DOMAIN Get(llm_result, "risk_flags", <<>>) |-> RiskFlag(Get(llm_result, "risk_flags", <<>>)[i])],
     deception_alerts |-> [i \in DOMAIN Get(llm_result, "deception_alerts", <<>>) |-> DeceptionAlert(Get(llm_result, "deception_alerts", <<>>)[i])],
     uncertainty_flags |-> Get(llm_result, "uncertainty_flags", <<>>),
     safe_for_general_public |-> Get(llm_result, "safe_for_general_public", TRUE),
     user_specific_warning |-> Get(llm_result, "user_specific_warning", FALSE),
     smart_swaps |-> [i \in DOMAIN Get(llm_result, "smart_swaps", <<>>) |-> SmartSwap(Get(llm_result, "smart_swaps", <<>>)[i])],
     summary |-> Get(llm_result, "summary", <<"Analysis complete.">>),
     analyzed_profiles |-> get_display_names(user_profile),
     timestamp |-> "utcnow",
     ingredient_count |-> Len(parsed),
     error |-> FALSE,
     error_message |-> NoneText]

\* the profile test with its first `not` dropped
ProfileMissing_NotDropped(user_profile) ==
    /\ user_profile.active_profiles # <<>>
    /\ user_profile.custom_restrictions = <<>>

\* `not user_profile.active_profiles and not user_profile.custom_restrictions`
ProfileMissing(user_profile) ==
    /\ user_profile.active_profiles = <<>>
    /\ user_profile.custom_restrictions = <<>>

\* no exception / no result
NoException == [type |-> "", text |-> ""]

NoResult == [none |-> TRUE]

\* The `client` argument is "None", "GroqClient" (an instance of the class
\* of llm.py) or "Stub" (any other object with an analyze_ingredients
\* method, such as a test double).  llm._client is "None" or "GroqClient".

\* `client or get_client()`: [raised, client, singleton]
ObtainClient(client, singleton, api_key) ==
    IF client # "None"
    THEN [raised |-> NoException, client |-> client, singleton |-> singleton]
    ELSE IF singleton # "None"
    THEN [raised |-> NoException, client |-> singleton, singleton |-> singleton]
    ELSE IF api_key
    THEN [raised |-> NoException, client |-> "GroqClient", singleton |-> "GroqClient"]
    ELSE [raised |-> [type |-> "ValueError",
                      text |-> "Groq API key not found. Set GROQ_API_KEY environment variable or pass api_key to GroqClient."],
          client |-> "None", singleton |-> singleton]

\* llm_client.analyze_ingredients(ingredients, user_profile):
\* [raised, dict, api_calls]
CollaboratorAnalyze(llm_client, ingredients, user_profile, stub, script) ==
    IF llm_client = "GroqClient"
    THEN LET g == GroqAnalyze(ingredients, user_profile, script)
         IN  [raised |-> NoException, dict |-> g.dict, api_calls |-> g.api_calls]
    ELSE IF stub.raises
    THEN [raised |-> [type |-> "Exception", text |-> stub.text],
          dict |-> EmptyDict, api_calls |-> 0]
    ELSE [raised |-> NoException, dict |-> stub.returns, api_calls |-> 0]

\* what one call of analyze_ingredients leaves behind
Outcome(res, exc, flags, didScreen, nAnalyze, nApi, singleton) ==
    [result |-> res, raised |-> exc, rule_flags |-> flags, screened |-> didScreen,
     analyze_calls |-> nAnalyze, api_calls |-> nApi, singleton |-> singleton]

\* analyze_ingredients(ingredients, user_profile, client)
AnalyzeIngredients(ingredients, user_profile, client, stub, script, singleton, api_key, seed) ==
    LET parsed == Parse(ingredients)
    IN  IF parsed = <<>>
        THEN Outcome(EmptyInputResult, NoException, <<>>, FALSE, 0, 0, singleton)
        ELSE IF ProfileMissing(user_profile)
        THEN Outcome(NoProfileResult(parsed), NoException, <<>>, FALSE, 0, 0, singleton)
        ELSE
        LET flags    == QuickScreen(parsed, user_profile, seed)
            obtained == ObtainClient(client, singleton, api_key)
        IN  IF obtained.raised # NoException
            THEN Outcome(NoResult, obtained.raised, flags, TRUE, 0, 0, obtained.singleton)
            ELSE
            LET reply == CollaboratorAnalyze(obtained.client, ingredients, user_profile,
                                             stub, script)
            IN  IF reply.raised # NoException
                THEN Outcome(NoResult, reply.raised, flags, TRUE, 1, reply.api_calls,
                             obtained.singleton)
                ELSE IF Get(reply.dict, "error", FALSE)
                THEN Outcome(CollaboratorErrorResult(reply.dict, parsed, user_profile),
                             NoException, flags, TRUE, 1, reply.api_calls,
                             obtained.singleton)
                ELSE Outcome(SuccessResult(reply.dict, parsed, user_profile),
                             NoException, flags, TRUE, 1, reply.api_calls,
                             obtained.singleton)

---------------------------------------------------------------------------
(* render_health_score (app.py) *)

\* what one RiskFlag takes off: the if/elif chain on flag.severity
Deduction(flag) ==
    IF flag.severity = "critical" THEN 25
    ELSE IF flag.severity = "high" THEN 15
    ELSE IF flag.severity = "medium" THEN 8
    ELSE 3

RECURSIVE DeductFlags(_, _)
\* the loop over result.risk_flags, starting from base_score
DeductFlags(base_score, flags) ==
    IF flags = <<>> THEN base_score
    ELSE DeductFlags(base_score - Deduction(Head(flags)), Tail(flags))

\* max(0, min(100, base_score))
Clamp(base_score) ==
    LET capped == IF base_score > 100 THEN 100 ELSE base_score
    IN  IF capped < 0 THEN 0 ELSE capped

\* the score render_health_score computes for a result
HealthScore(res) ==
    Clamp(DeductFlags(100, res.risk_flags) - Len(res.deception_alerts) * 5)

\* the letter grade with every threshold exclusive
Grade_Exclusive(score) ==
    IF score > 80 THEN "A"
    ELSE IF score > 60 THEN "B"
    ELSE IF score > 40 THEN "C"
    ELSE IF score > 20 THEN "D"
    ELSE "F"

\* the letter grade: the if/elif chain on score
Grade(score) ==
    IF score >= 80 THEN "A"
    ELSE IF score >= 60 THEN "B"
    ELSE IF score >= 40 THEN "C"
    ELSE IF score >= 20 THEN "D"
    ELSE "F"

---------------------------------------------------------------------------
(* generate_risk_report (analyzer.py) *)

\* A report is modelled as the list `lines` that the code joins with "\n".
\* An emoji is one element of a str, written as its code point.

\* str.upper() on one character
UpperChar(c) ==
    IF \E i \in 1..26 : LowerCase[i] = c
    THEN UpperCase[CHOOSE i \in 1..26 : LowerCase[i] = c]
    ELSE c

\* c is a cased letter
IsLetter(c) == \E i \in 1..26 : LowerCase[i] = c \/ UpperCase[i] = c

\* str.title(): a letter is uppercased when no letter precedes it and
\* lowercased otherwise
Title(s) ==
    [i \in 1..Len(s) |->
        IF ~IsLetter(s[i]) THEN s[i]
        ELSE IF i > 1 /\ IsLetter(s[i - 1]) THEN LowerChar(s[i])
        ELSE UpperChar(s[i])]

\* s.replace('_', ' ')
ReplaceUnderscore(s) == [i \in 1..Len(s) |-> IF s[i] = "_" THEN " " ELSE s[i]]

RECURSIVE Join(_, _)
\* sep.join(parts)
Join(sep, parts) ==
    IF parts = <<>> THEN <<>>
    ELSE IF Len(parts) = 1 THEN parts[1]
    ELSE parts[1] \o sep \o Join(sep, Tail(parts))

RECURSIVE Concat(_)
\* the lists of a list, one after the other
Concat(lists) ==
    IF lists = <<>> THEN <<>> ELSE Head(lists) \o Concat(Tail(lists))

Digit == <<"0","1","2","3","4","5","6","7","8","9">>

RECURSIVE Decimal(_)
\* a natural number in decimal
Decimal(n) ==
    IF n < 10 THEN <<Digit[n + 1]>> ELSE Decimal(n \div 10) \o <<Digit[(n % 10) + 1]>>

\* f"{confidence_score:.0%}", confidence_score in hundredths
Percent(confidence_score) == Decimal(confidence_score) \o <<"%">>

\* verdict_emoji.get(overall_verdict, "?")
VerdictEmoji(overall_verdict) ==
    CASE overall_verdict = <<"S","A","F","E">> -> <<"U+2705">>
      [] overall_verdict = <<"C","A","U","T","I","O","N">> -> <<"U+26A0", "U+FE0F">>
      [] overall_verdict = <<"A","V","O","I","D">> -> <<"U+1F6AB">>
      [] OTHER -> <<"U+2753">>

\* the severity -> symbol mapping
SeverityEmoji(severity) ==
    CASE severity = <<"c","r","i","t","i","c","a","l">> -> <<"U+1F534">>
      [] severity = <<"h","i","g","h">> -> <<"U+1F7E0">>
      [] severity = <<"m","e","d","i","u","m">> -> <<"U+1F7E1">>
      [] severity = <<"l","o","w">> -> <<"U+1F7E2">>
      [] OTHER -> <<"U+26AA">>

\* the lines of one risk flag in the markdown report
MarkdownFlag(flag) ==
    << <<"#","#","#"," ">> \o SeverityEmoji(flag.severity) \o <<" ">> \o flag.ingredient,
       <<"-"," ","*","*","R","i","s","k"," ","T","y","p","e",":","*","*"," ">> \o Title(ReplaceUnderscore(flag.risk_type)),
       <<"-"," ","*","*","S","e","v","e","r","i","t","y",":","*","*"," ">> \o Title(flag.severity),
       <<"-"," ","*","*","E","x","p","l","a","n","a","t","i","o","n",":","*","*"," ">> \o flag.explanation >>
    \o (IF flag.relevant_profiles # <<>>
        THEN << <<"-"," ","*","*","A","f","f","e","c","t","s",":","*","*"," ">> \o Join(<<",", " ">>, flag.relevant_profiles) >>
        ELSE <<>>)
    \o << <<>> >>

\* the lines of one deception alert in the markdown report
MarkdownAlert(alert) ==
    << <<"-"," ","*","*","C","l","a","i","m",":","*","*"," ">> \o alert.claim,
       <<" "," ","-"," ","*","*","R","e","a","l","i","t","y",":","*","*"," ">> \o alert.reality,
       <<>> >>

\* the lines of one uncertainty flag in the markdown report
MarkdownUncertainty(flag) ==
    << <<"-"," ","*","*">> \o Get(flag, "ingredient", <<"U","n","k","n","o","w","n">>) \o <<"*","*">> >>
    \o (IF Get(flag, "possible_concerns", <<>>) # <<>>
        THEN << <<" "," ","-"," ","P","o","s","s","i","b","l","e"," ","c","o","n","c","e","r","n","s",":"," ">>
                    \o Join(<<",", " ">>, Get(flag, "possible_concerns", <<>>)) >>
        ELSE <<>>)
    \o (IF Get(flag, "recommendation", <<>>) # <<>>
        THEN << <<" "," ","-"," ","R","e","c","o","m","m","e","n","d","a","t","i","o","n",":"," ">> \o Get(flag, "recommendation", <<>>) >>
        ELSE <<>>)
    \o << <<>> >>

\* the lines of one smart swap in the markdown report
MarkdownSwap(swap) ==
    << <<"-"," ","*","*","I","n","s","t","e","a","d"," ","o","f",":","*","*"," ">> \o swap.avoid,
       <<" "," ","-"," ","*","*","T","r","y",":","*","*"," ">> \o swap.try_instead,
       <<" "," ","-"," ","*","*","W","h","y",":","*","*"," ">> \o swap.reason,
       <<>> >>

\* _generate_markdown_report(result): its `lines`
GenerateMarkdownReport(res) ==
    << <<"#"," ","L","a","b","e","l","L","e","n","s"," ","A","n","a","l","y","s","i","s"," ","R","e","p","o","r","t">>,
       <<>>,
       <<"#","#"," ","O","v","e","r","a","l","l"," ","V","e","r","d","i","c","t",":"," ">> \o VerdictEmoji(res.overall_verdict) \o <<" ">> \o res.overall_verdict,
       <<>>,
       <<"*","*","C","o","n","f","i","d","e","n","c","e",":","*","*"," ">> \o Percent(res.confidence_score),
       <<>>,
       <<"*","*","A","n","a","l","y","z","e","d"," ","f","o","r",":","*","*"," ">> \o Join(<<",", " ">>, res.analyzed_profiles),
       <<>>,
       <<"#","#","#"," ","S","u","m","m","a","r","y">>,
       res.summary,
       <<>> >>
    \o (IF res.risk_flags # <<>>
        THEN << <<"#", "#", " ", "U+26A0", "U+FE0F">> \o <<" ","R","i","s","k"," ","F","l","a","g","s">>, <<>> >>
                 \o Concat([i \in DOMAIN res.risk_flags |-> MarkdownFlag(res.risk_flags[i])])
        ELSE <<>>)
    \o (IF res.deception_alerts # <<>>
        THEN << <<"#", "#", " ", "U+1F3AD">> \o <<" ","D","e","c","e","p","t","i","o","n"," ","A","l","e","r","t","s">>, <<>> >>
                 \o Concat([i \in DOMAIN res.deception_alerts |->
                               MarkdownAlert(res.deception_alerts[i])])
        ELSE <<>>)
    \o (IF res.uncertainty_flags # <<>>
        THEN << <<"#", "#", " ", "U+2753">> \o <<" ","U","n","c","e","r","t","a","i","n","t","y"," ","F","l","a","g","s">>, <<>> >>
                 \o Concat([i \in DOMAIN res.uncertainty_flags |->
                               MarkdownUncertainty(res.uncertainty_flags[i])])
        ELSE <<>>)
    \o (IF res.smart_swaps # <<>>
        THEN << <<"#", "#", " ", "U+1F4A1">> \o <<" ","S","m","a","r","t"," ","S","w","a","p","s">>, <<>> >>
                 \o Concat([i \in DOMAIN res.smart_swaps |-> MarkdownSwap(res.smart_swaps[i])])
        ELSE <<>>)
    \o << <<"-","-","-">>,
          <<"*","A","n","a","l","y","s","i","s"," ","p","e","r","f","o","r","m","e","d"," ","a","t"," ">> \o res.timestamp \o <<"*">>,
          <<>>,
          <<"*","D","i","s","c","l","a","i","m","e","r",":"," ","T","h","i","s"," ","a","n","a","l","y","s","i","s"," ","i","s"," ","f","o","r"," ","i","n","f","o","r","m","a","t","i","o","n","a","l"," ","p","u","r","p","o","s","e","s"," ","o","n","l","y"," ","a","n","d"," ","d","o","e","s"," ","n","o","t"," ","c","o","n","s","t","i","t","u","t","e"," ","m","e","d","i","c","a","l"," ","a","d","v","i","c","e",".","*">> >>

\* the lines of one risk flag in the plain report
PlainFlag(flag) ==
    << <<"U+2022", " ">> \o flag.ingredient \o <<" ","[">> \o flag.severity \o <<"]">>,
       <<" "," ","T","y","p","e",":"," ">> \o flag.risk_type,
       <<" "," ">> \o flag.explanation,
       <<>> >>

\* the lines of one smart swap in the plain report
PlainSwap(swap) ==
    << <<"U+2022", " ">> \o <<"I","n","s","t","e","a","d"," ","o","f"," ">> \o swap.avoid \o <<","," ","t","r","y"," ">> \o swap.try_instead,
       <<" "," ","(">> \o swap.reason \o <<")">>,
       <<>> >>

\* _generate_plain_report(result): its `lines`
GeneratePlainReport(res) ==
    << <<"L","A","B","E","L","L","E","N","S"," ","A","N","A","L","Y","S","I","S"," ","R","E","P","O","R","T">>,
       [i \in 1..30 |-> "="],
       <<>>,
       <<"V","E","R","D","I","C","T",":"," ">> \o res.overall_verdict,
       <<"C","o","n","f","i","d","e","n","c","e",":"," ">> \o Percent(res.confidence_score),
       <<"P","r","o","f","i","l","e","s",":"," ">> \o Join(<<",", " ">>, res.analyzed_profiles),
       <<>>,
       <<"S","U","M","M","A","R","Y",":">>,
       res.summary,
       <<>> >>
    \o (IF res.risk_flags # <<>>
        THEN << <<"R","I","S","K"," ","F","L","A","G","S",":">>, [i \in 1..20 |-> "-"] >>
                 \o Concat([i \in DOMAIN res.risk_flags |-> PlainFlag(res.risk_flags[i])])
        ELSE <<>>)
    \o (IF res.smart_swaps # <<>>
        THEN << <<"S","M","A","R","T"," ","S","W","A","P","S",":">>, [i \in 1..20 |-> "-"] >>
                 \o Concat([i \in DOMAIN res.smart_swaps |-> PlainSwap(res.smart_swaps[i])])
        ELSE <<>>)

\* generate_risk_report(result, format): the lines of the report
GenerateRiskReport(res, format) ==
    IF format = "markdown" THEN GenerateMarkdownReport(res) ELSE GeneratePlainReport(res)

---------------------------------------------------------------------------
(* Variables of the operations a specification does not exercise *)

ParseIdle ==
    /\ raw_ingredients = <<>>
    /\ text = <<>>
    /\ pos = 0
    /\ scan = ScanStart
    /\ scan_pc = "idle"

ScreenIdle ==
    /\ screen_ingredients = <<>>
    /\ screen_profile = UserProfile(<<>>, <<>>)
    /\ rule_flags = <<>>
    /\ prev_flags = <<>>
    /\ screen_calls = 0

IdleStub == [raises |-> FALSE, text |-> "", returns |-> EmptyDict]

AnalyzeIdle ==
    /\ in_ingredients = <<>>
    /\ in_user_profile = UserProfile(<<>>, <<>>)
    /\ in_client = "None"
    /\ in_stub = IdleStub
    /\ api_script = <<>>
    /\ GROQ_API_KEY = FALSE
    /\ client_singleton = "None"
    /\ an_pc = "idle"
    /\ result = NoResult
    /\ raised = NoException
    /\ screened = FALSE
    /\ analyze_calls = 0
    /\ api_calls = 0

NormIdle ==
    /\ norm_ingredient = <<>>
    /\ norm_out = <<>>
    /\ norm_calls = 0

\* no AnalysisResult is on display
NothingShown == [risk_flags |-> <<>>, deception_alerts |-> <<>>]

ScoreIdle ==
    /\ shown_result = NothingShown
    /\ shown_score = 0
    /\ shown_grade = ""
    /\ score_pc = "idle"

GroqIdle ==
    /\ groq_ingredients = <<>>
    /\ groq_profile = UserProfile(<<>>, <<>>)
    /\ groq_log = <<>>
    /\ groq_pc = "idle"
    /\ groq_reply = EmptyDict

ReportIdle ==
    /\ report_result = NothingShown
    /\ report_format = ""
    /\ report_lines = <<>>
    /\ report_pc = "idle"

RegistryIdle ==
    /\ selected_profile_types = <<>>

SessionIdle ==
    /\ show_onboarding = TRUE
    /\ current_view = "main"
    /\ analysis_result = <<>>
    /\ ingredients_input = ""
    /\ history_added = FALSE
    /\ scan_history = <<>>
    /\ clock = 0
    /\ scans = 0

CustomIdle ==
    /\ custom_profiles = <<>>
    /\ selected_custom_profiles = <<>>

---------------------------------------------------------------------------
(* Inputs of the parser specification *)

BodyAlphabet == {"a", " ", ",", ";", "(", ")"}

RECURSIVE StringsUpTo(_)
\* every str over BodyAlphabet of length at most n
StringsUpTo(n) ==
    IF n = 0 THEN {<<>>}
    ELSE LET shorter == StringsUpTo(n - 1)
         IN  shorter \cup {Append(s, c) : s \in {t \in shorter : Len(t) = n - 1},
                                          c \in BodyAlphabet}

LabelPrefixes ==
    { <<>>,
      <<"I","n","g","r","e","d","i","e","n","t","s",":"," ">>,
      <<"c","o","n","t","a","i","n"," ",":">> }

\* "Flour (Wheat, Niacin), Water"
SampleFlour ==
    <<"F","l","o","u","r"," ","(","W","h","e","a","t",","," ","N","i","a","c","i","n",")",","," ","W","a","t","e","r">>

\* "A), B, C"
SampleUnbalanced == <<"A",")",","," ","B",","," ","C">>

\* "Water, Sugar, Wheat Flour"
SampleWaterSugar ==
    <<"W","a","t","e","r",","," ","S","u","g","a","r",","," ","W","h","e","a","t"," ","F","l","o","u","r">>

\* "Ingredients: A, B"
SampleOnePrefix ==
    <<"I","n","g","r","e","d","i","e","n","t","s",":"," ","A",","," ","B">>

\* "Ingredients: Contains: A, B"
SampleTwoPrefixes ==
    <<"I","n","g","r","e","d","i","e","n","t","s",":"," ","C","o","n","t","a","i","n","s",":"," ","A",","," ","B">>

\* "Contains: Ingredients: A, B"
SampleTwoPrefixesReversed ==
    <<"C","o","n","t","a","i","n","s",":"," ","I","n","g","r","e","d","i","e","n","t","s",":"," ","A",","," ","B">>

ParseInputs ==
    {None, SampleFlour, SampleUnbalanced, SampleWaterSugar,
     SampleOnePrefix, SampleTwoPrefixes, SampleTwoPrefixesReversed}
        \cup {p \o b : p \in LabelPrefixes, b \in StringsUpTo(MaxLen)}

---------------------------------------------------------------------------
(* SpecParse: IngredientParser.parse, one loop iteration per step *)

InitParse ==
    /\ raw_ingredients \in ParseInputs
    /\ text = <<>>
    /\ pos = 0
    /\ scan = ScanStart
    /\ scan_pc = "start"
    /\ hash_seed = 0
    /\ ScreenIdle
    /\ AnalyzeIdle
    /\ NormIdle
    /\ ScoreIdle
    /\ GroqIdle
    /\ ReportIdle
    /\ RegistryIdle
    /\ SessionIdle
    /\ CustomIdle

\* lines 105-123: the falsy early return, strip, prefix removal
ParseEnter ==
    /\ scan_pc = "start"
    /\ IF Falsy(raw_ingredients)
       THEN /\ scan_pc' = "done"
            /\ text' = text
       ELSE /\ scan_pc' = "scan"
            /\ text' = StripPrefixes(Strip(raw_ingredients))
    /\ UNCHANGED <<raw_ingredients, pos, scan>>
    /\ UNCHANGED hash_seed
    /\ UNCHANGED screenVars
    /\ UNCHANGED analyzeVars
    /\ UNCHANGED normVars
    /\ UNCHANGED scoreVars
    /\ UNCHANGED groqVars
    /\ UNCHANGED reportVars
    /\ UNCHANGED registryVars
    /\ UNCHANGED sessionVars
    /\ UNCHANGED customVars

\* lines 125-137: one character
ParseStep ==
    /\ scan_pc = "scan"
    /\ pos < Len(text)
    /\ pos' = pos + 1
    /\ scan' = ParseChar(scan, text[pos + 1])
    /\ UNCHANGED <<raw_ingredients, text, scan_pc>>
    /\ UNCHANGED hash_seed
    /\ UNCHANGED screenVars
    /\ UNCHANGED analyzeVars
    /\ UNCHANGED normVars
    /\ UNCHANGED scoreVars
    /\ UNCHANGED groqVars
    /\ UNCHANGED reportVars
    /\ UNCHANGED registryVars
    /\ UNCHANGED sessionVars
    /\ UNCHANGED customVars

\* lines 139-142: the trailing segment and the return
ParseReturn ==
    /\ scan_pc = "scan"
    /\ pos = Len(text)
    /\ scan' = [scan EXCEPT !.ingredients = Emit(scan), !.current = <<>>]
    /\ scan_pc' = "done"
    /\ UNCHANGED <<raw_ingredients, text, pos>>
    /\ UNCHANGED hash_seed
    /\ UNCHANGED screenVars
    /\ UNCHANGED analyzeVars
    /\ UNCHANGED normVars
    /\ UNCHANGED scoreVars
    /\ UNCHANGED groqVars
    /\ UNCHANGED reportVars
    /\ UNCHANGED registryVars
    /\ UNCHANGED sessionVars
    /\ UNCHANGED customVars

NextParse == ParseEnter \/ ParseStep \/ ParseReturn

SpecParse == InitParse /\ [][NextParse]_vars

---------------------------------------------------------------------------
(* Inputs of the screener specification *)

\* "Water", "Agave Nectar", "Barley Malt", "Corn Oil", "Flour (Wheat)"
IngredientPool ==
    { <<"W","a","t","e","r">>,
      <<"A","g","a","v","e"," ","N","e","c","t","a","r">>,
      <<"B","a","r","l","e","y"," ","M","a","l","t">>,
      <<"C","o","r","n"," ","O","i","l">>,
      <<"F","l","o","u","r"," ","(","W","h","e","a","t",")">> }

RECURSIVE ListsUpTo(_, _)
\* every list of at most n elements of S
ListsUpTo(S, n) ==
    IF n = 0 THEN {<<>>}
    ELSE LET shorter == ListsUpTo(S, n - 1)
         IN  shorter \cup {Append(s, x) : s \in {l \in shorter : Len(l) = n - 1},
                                          x \in S}

\* the profile types that enable a check, and one that enables none
ScreenedTypes ==
    {"TYPE_2_DIABETES", "PCOS", "KETO", "AVOID_SEED_OILS", "IBS_LOW_FODMAP",
     "CELIAC", "HYPERTENSION"}

\* position of a ProfileType in the enumeration
TypeIndex(p) == CHOOSE i \in 1..Len(ProfileType) : ProfileType[i] = p

\* active_profiles lists: distinct types, in enumeration order (the order
\* in which the selector offers them)
ActiveProfileLists ==
    {l \in ListsUpTo(ScreenedTypes, MaxProfiles) :
        \A i \in 1..(Len(l) - 1) : TypeIndex(l[i]) < TypeIndex(l[i + 1])}

---------------------------------------------------------------------------
(* SpecScreen: calls of quick_screen with fixed arguments, in the          *)
(* interpreter processes the program is started in                         *)

InitScreen ==
    /\ ParseIdle
    /\ AnalyzeIdle
    /\ NormIdle
    /\ ScoreIdle
    /\ hash_seed \in HashSeeds
    /\ screen_ingredients \in ListsUpTo(IngredientPool, MaxIngredients)
    /\ screen_profile \in {UserProfile(a, <<>>) : a \in ActiveProfileLists}
    /\ rule_flags = <<>>
    /\ prev_flags = <<>>
    /\ screen_calls = 0
    /\ GroqIdle
    /\ ReportIdle
    /\ RegistryIdle
    /\ SessionIdle
    /\ CustomIdle

\* one call of quick_screen
QuickScreenCall ==
    /\ screen_calls < MaxScreenCalls
    /\ screen_calls' = screen_calls + 1
    /\ prev_flags' = rule_flags
    /\ rule_flags' = QuickScreen(screen_ingredients, screen_profile, hash_seed)
    /\ UNCHANGED <<screen_ingredients, screen_profile, hash_seed>>
    /\ UNCHANGED parseVars
    /\ UNCHANGED analyzeVars
    /\ UNCHANGED normVars
    /\ UNCHANGED scoreVars
    /\ UNCHANGED groqVars
    /\ UNCHANGED reportVars
    /\ UNCHANGED registryVars
    /\ UNCHANGED sessionVars
    /\ UNCHANGED customVars

\* the program is started again: a new process, a new hash seed
RestartInterpreter ==
    /\ screen_calls < MaxScreenCalls
    /\ hash_seed' \in HashSeeds \ {hash_seed}
    /\ UNCHANGED screenVars
    /\ UNCHANGED parseVars
    /\ UNCHANGED analyzeVars
    /\ UNCHANGED normVars
    /\ UNCHANGED scoreVars
    /\ UNCHANGED groqVars
    /\ UNCHANGED reportVars
    /\ UNCHANGED registryVars
    /\ UNCHANGED sessionVars
    /\ UNCHANGED customVars

NextScreen == QuickScreenCall \/ RestartInterpreter

SpecScreen == InitScreen /\ [][NextScreen]_vars

---------------------------------------------------------------------------
(* Inputs of the pipeline specification *)

\* a key that a dict does not hold
Absent == "<absent>"

\* one risk-flag record as the collaborator returns it
SugarRecord ==
    [ingredient |-> "Sugar", risk_type |-> "hidden_sugar", severity |-> "high",
     explanation |-> "raises blood glucose", relevant_profiles |-> <<"Type 2 Diabetes">>]

\* a risk-flag record that has an explanation and nothing else
ExplanationOnly == "explanation" :> "raises blood glucose"

\* one deception-alert record as the collaborator returns it
SugarClaim ==
    [claim |-> "No added sugar", reality |-> "contains agave nectar",
     concern_level |-> "high"]

\* a deception-alert record without reality and concern_level
ClaimOnly == "claim" :> "No added sugar"

\* the dict with the given entries; Absent leaves the key out
ResponseDict(verdict, score, flags, err) ==
    (IF verdict = Absent THEN EmptyDict ELSE "overall_verdict" :> verdict)
    @@ (CASE score = "absent" -> EmptyDict
          [] score = "given"  -> "confidence_score" :> 90
          [] score = "over"   -> "confidence_score" :> 150)
    @@ (CASE flags = "absent"  -> EmptyDict
          [] flags = "full"    -> ("risk_flags" :> <<SugarRecord>>)
                                  @@ ("deception_alerts" :> <<SugarClaim>>)
          [] flags = "partial" -> ("risk_flags" :> <<ExplanationOnly>>)
                                  @@ ("deception_alerts" :> <<ClaimOnly>>))
    @@ (CASE err = "absent"  -> EmptyDict
          [] err = "false"   -> "error" :> FALSE
          [] err = "true"    -> "error" :> TRUE
          [] err = "null"    -> ("error" :> TRUE) @@ ("error_message" :> NoneText)
          [] err = "message" -> ("error" :> TRUE)
                                @@ ("error_message" :> "rate limited")
                                @@ ("summary" :> <<"Analysis failed: ", "rate limited">>))

VerdictValues == {Absent, "SAFE", "AVOID", "MAYBE"}

\* confidence_score left out, 0.9, or 1.5
ScoreValues == {"absent", "given", "over"}

\* risk_flags and deception_alerts left out, one complete record each, one
\* record each with most fields missing
FlagValues == {"absent", "full", "partial"}

\* what a stub client may return
StubResponses ==
    {ResponseDict(v, c, f, e) :
        v \in VerdictValues, c \in ScoreValues, f \in FlagValues,
        e \in {"absent", "false", "true", "null", "message"}}

\* what a stub client may do
StubBehaviours ==
    {[raises |-> TRUE, text |-> "connection reset", returns |-> EmptyDict]}
        \cup {[raises |-> FALSE, text |-> "", returns |-> d] : d \in StubResponses}

\* the JSON objects the Groq API may answer with
ApiBodies ==
    {ResponseDict(v, c, f, "absent") :
        v \in VerdictValues, c \in ScoreValues, f \in FlagValues}

\* what the Groq API may do at one attempt
ApiOutcomes ==
    {[kind |-> "response", text |-> "", body |-> b] : b \in ApiBodies}
        \cup {[kind |-> "JSONDecodeError", text |-> "Expecting value", body |-> EmptyDict],
              [kind |-> "ValueError", text |-> "bad value", body |-> EmptyDict],
              [kind |-> "APIConnectionError", text |-> "Connection error.", body |-> EmptyDict]}

\* the scripts of one call: every attempt but the last fails with a retried
\* exception, and the last either ends the call or is attempt MAX_RETRIES
ApiScripts ==
    {s \in ListsUpTo(ApiOutcomes, MAX_RETRIES) :
        /\ s # <<>>
        /\ \A i \in 1..(Len(s) - 1) : s[i].kind \in RetriedExceptions
        /\ s[Len(s)].kind \in RetriedExceptions => Len(s) = MAX_RETRIES}

\* "Agave Nectar; Barley Malt"
SampleAgave ==
    <<"A","g","a","v","e"," ","N","e","c","t","a","r",";"," ","B","a","r","l","e","y"," ","M","a","l","t">>

\* "Ingredients:"
SamplePrefixOnly == <<"I","n","g","r","e","d","i","e","n","t","s",":">>

AnalyzeInputs ==
    {None, <<>>, <<" ">>, <<",", ";">>, SamplePrefixOnly,
     SampleWaterSugar, SampleAgave}

\* "Vegan: milk" and "no msg"
CustomRestrictionLists ==
    { <<>>,
      << <<"V","e","g","a","n",":"," ","m","i","l","k">>,
         <<"n","o"," ","m","s","g">> >> }

AnalyzeProfiles ==
    {UserProfile(a, c) : a \in {<<>>, <<"TYPE_2_DIABETES">>}, c \in CustomRestrictionLists}
        \cup {UserProfile(<<"IBS_LOW_FODMAP", "CELIAC">>, <<>>)}

---------------------------------------------------------------------------
(* Spec: one call of analyze_ingredients *)

Init ==
    /\ ParseIdle
    /\ NormIdle
    /\ ScoreIdle
    /\ screen_ingredients = <<>>
    /\ screen_profile = UserProfile(<<>>, <<>>)
    /\ rule_flags = <<>>
    /\ prev_flags = <<>>
    /\ screen_calls = 0
    /\ hash_seed \in HashSeeds
    /\ in_ingredients \in AnalyzeInputs
    /\ in_user_profile \in AnalyzeProfiles
    /\ in_client \in {"None", "GroqClient", "Stub"}
    /\ in_stub \in IF in_client = "Stub" THEN StubBehaviours ELSE {IdleStub}
    /\ GROQ_API_KEY \in IF in_client = "None" THEN BOOLEAN ELSE {TRUE}
    \* llm._client may have been created by an earlier call
    /\ client_singleton \in
           IF in_client = "None" /\ GROQ_API_KEY THEN {"None", "GroqClient"} ELSE {"None"}
    /\ api_script \in
           IF in_client = "Stub" \/ ~GROQ_API_KEY THEN {<<>>} ELSE ApiScripts
    /\ an_pc = "ready"
    /\ result = NoResult
    /\ raised = NoException
    /\ screened = FALSE
    /\ analyze_calls = 0
    /\ api_calls = 0
    /\ GroqIdle
    /\ ReportIdle
    /\ RegistryIdle
    /\ SessionIdle
    /\ CustomIdle

\* the call, from entry to its return or to the exception that leaves it
Analyze ==
    /\ an_pc = "ready"
    /\ \E out \in {AnalyzeIngredients(in_ingredients, in_user_profile, in_client,
                                      in_stub, api_script, client_singleton,
                                      GROQ_API_KEY, hash_seed)} :
           /\ result' = out.result
           /\ raised' = out.raised
           /\ rule_flags' = out.rule_flags
           /\ screened' = out.screened
           /\ analyze_calls' = out.analyze_calls
           /\ api_calls' = out.api_calls
           /\ client_singleton' = out.singleton
    /\ an_pc' = "returned"
    /\ UNCHANGED analyzeInputs
    /\ UNCHANGED <<hash_seed, screen_ingredients, screen_profile, prev_flags, screen_calls>>
    /\ UNCHANGED parseVars
    /\ UNCHANGED normVars
    /\ UNCHANGED scoreVars
    /\ UNCHANGED groqVars
    /\ UNCHANGED reportVars
    /\ UNCHANGED registryVars
    /\ UNCHANGED sessionVars
    /\ UNCHANGED customVars

Next == Analyze

Spec == Init /\ [][Next]_vars

---------------------------------------------------------------------------
(* SpecScore: render_health_score on an AnalysisResult *)

\* the severities a RiskFlag may carry: the four the prompt asks for and
\* one the collaborator made up
Severities == {"critical", "high", "medium", "low", "moderate"}

\* a RiskFlag of the given severity
FlagOf(severity) ==
    [ingredient |-> "Sugar", risk_type |-> "hidden_sugar", severity |-> severity,
     explanation |-> "", relevant_profiles |-> <<>>]

\* a DeceptionAlert
SampleAlert ==
    [claim |-> "No added sugar", reality |-> "contains agave nectar",
     concern_level |-> "medium"]

\* the results put on display
ShownResults ==
    {[risk_flags |-> f, deception_alerts |-> [i \in 1..n |-> SampleAlert]] :
        f \in ListsUpTo({FlagOf(sv) : sv \in Severities}, MaxFlags),
        n \in 0..MaxAlerts}

InitScore ==
    /\ ParseIdle
    /\ ScreenIdle
    /\ AnalyzeIdle
    /\ NormIdle
    /\ hash_seed = 0
    /\ shown_result \in ShownResults
    /\ shown_score = 0
    /\ shown_grade = ""
    /\ score_pc = "ready"
    /\ GroqIdle
    /\ ReportIdle
    /\ RegistryIdle
    /\ SessionIdle
    /\ CustomIdle

\* render_health_score(result)
RenderHealthScore ==
    /\ score_pc = "ready"
    /\ shown_score' = HealthScore(shown_result)
    /\ shown_grade' = Grade(HealthScore(shown_result))
    /\ score_pc' = "rendered"
    /\ UNCHANGED shown_result
    /\ UNCHANGED hash_seed
    /\ UNCHANGED parseVars
    /\ UNCHANGED screenVars
    /\ UNCHANGED analyzeVars
    /\ UNCHANGED normVars
    /\ UNCHANGED groqVars
    /\ UNCHANGED reportVars
    /\ UNCHANGED registryVars
    /\ UNCHANGED sessionVars
    /\ UNCHANGED customVars

NextScore == RenderHealthScore

SpecScore == InitScore /\ [][NextScore]_vars

---------------------------------------------------------------------------
(* SpecNormalize: IngredientParser.normalize, applied to an ingredient and *)
(* then to its own return value                                            *)

NormAlphabet == {"a", "A", " ", "(", ")"}

\* "Flour (Wheat (Durum), Niacin)"
SampleNested ==
    <<"F","l","o","u","r"," ","(","W","h","e","a","t"," ","(","D","u","r","u","m",")",","," ","N","i","a","c","i","n",")">>

\* "Corn Oil (Non-GMO)"
SampleCornOil ==
    <<"C","o","r","n"," ","O","i","l"," ","(","N","o","n","-","G","M","O",")">>

NormInputs ==
    ListsUpTo(NormAlphabet, MaxLen) \cup {SampleNested, SampleCornOil, SampleFlour}

InitNormalize ==
    /\ ParseIdle
    /\ ScreenIdle
    /\ AnalyzeIdle
    /\ ScoreIdle
    /\ hash_seed = 0
    /\ norm_ingredient \in NormInputs
    /\ norm_out = <<>>
    /\ norm_calls = 0
    /\ GroqIdle
    /\ ReportIdle
    /\ RegistryIdle
    /\ SessionIdle
    /\ CustomIdle

\* normalize(ingredient), or normalize of what the latest call returned
NormalizeCall ==
    /\ norm_calls < MaxNormCalls
    /\ norm_out' = Normalize(IF norm_calls = 0 THEN norm_ingredient ELSE norm_out)
    /\ norm_calls' = norm_calls + 1
    /\ UNCHANGED norm_ingredient
    /\ UNCHANGED hash_seed
    /\ UNCHANGED parseVars
    /\ UNCHANGED screenVars
    /\ UNCHANGED analyzeVars
    /\ UNCHANGED scoreVars
    /\ UNCHANGED groqVars
    /\ UNCHANGED reportVars
    /\ UNCHANGED registryVars
    /\ UNCHANGED sessionVars
    /\ UNCHANGED customVars

NextNormalize == NormalizeCall

SpecNormalize == InitNormalize /\ [][NextNormalize]_vars

---------------------------------------------------------------------------
(* SpecGroq: GroqClient.analyze_ingredients, one API attempt per step *)

InitGroq ==
    /\ ParseIdle
    /\ ScreenIdle
    /\ AnalyzeIdle
    /\ NormIdle
    /\ ScoreIdle
    /\ hash_seed = 0
    /\ groq_ingredients \in AnalyzeInputs
    /\ groq_profile \in AnalyzeProfiles
    /\ groq_log = <<>>
    /\ groq_pc = "ready"
    /\ groq_reply = EmptyDict
    /\ ReportIdle
    /\ RegistryIdle
    /\ SessionIdle
    /\ CustomIdle

\* lines 193-200: the two early returns and the prompts
GroqEnter ==
    /\ groq_pc = "ready"
    /\ IF Falsy(groq_ingredients) \/ Strip(groq_ingredients) = <<>>
       THEN /\ groq_reply' = EmptyResult("No ingredients provided")
            /\ groq_pc' = "returned"
       ELSE IF groq_profile.active_profiles = <<>>
       THEN /\ groq_reply' = EmptyResult("No health profiles selected")
            /\ groq_pc' = "returned"
       ELSE /\ groq_reply' = groq_reply
            /\ groq_pc' = "calling"
    /\ UNCHANGED <<groq_ingredients, groq_profile, groq_log>>
    /\ UNCHANGED hash_seed
    /\ UNCHANGED parseVars
    /\ UNCHANGED screenVars
    /\ UNCHANGED analyzeVars
    /\ UNCHANGED normVars
    /\ UNCHANGED scoreVars
    /\ UNCHANGED reportVars
    /\ UNCHANGED registryVars
    /\ UNCHANGED sessionVars
    /\ UNCHANGED customVars

\* one attempt of _call_groq under @retry, and what analyze_ingredients
\* does when the call is over
GroqAttempt ==
    /\ groq_pc = "calling"
    /\ \E outcome \in ApiOutcomes :
           /\ groq_log' = Append(groq_log, outcome)
           /\ IF outcome.kind = "response"
              THEN /\ groq_reply' = ValidateAndNormalize(outcome.body)
                   /\ groq_pc' = "returned"
              ELSE IF outcome.kind \in RetriedExceptions
              THEN IF Len(groq_log) + 1 < MAX_RETRIES
                   THEN /\ groq_reply' = groq_reply
                        /\ groq_pc' = "calling"
                   ELSE /\ groq_reply' = ErrorResult("RetryError")
                        /\ groq_pc' = "returned"
              ELSE /\ groq_reply' = ErrorResult(outcome.text)
                   /\ groq_pc' = "returned"
    /\ UNCHANGED <<groq_ingredients, groq_profile>>
    /\ UNCHANGED hash_seed
    /\ UNCHANGED parseVars
    /\ UNCHANGED screenVars
    /\ UNCHANGED analyzeVars
    /\ UNCHANGED normVars
    /\ UNCHANGED scoreVars
    /\ UNCHANGED reportVars
    /\ UNCHANGED registryVars
    /\ UNCHANGED sessionVars
    /\ UNCHANGED customVars

NextGroq == GroqEnter \/ GroqAttempt

SpecGroq == InitGroq /\ [][NextGroq]_vars

---------------------------------------------------------------------------
(* SpecReport: generate_risk_report on an AnalysisResult *)

\* the risk flags a reported result may hold
ReportFlags ==
    { [ingredient |-> <<"S","u","g","a","r">>, risk_type |-> <<"h","i","d","d","e","n","_","s","u","g","a","r">>, severity |-> <<"h","i","g","h">>,
       explanation |-> <<"r","a","i","s","e","s"," ","b","l","o","o","d"," ","g","l","u","c","o","s","e">>,
       relevant_profiles |-> << <<"T","y","p","e"," ","2"," ","D","i","a","b","e","t","e","s">> >>],
      [ingredient |-> <<"C","o","r","n"," ","O","i","l">>, risk_type |-> <<"s","e","e","d","_","o","i","l">>, severity |-> <<"m","o","d","e","r","a","t","e">>,
       explanation |-> <<"o","m","e","g","a","-","6">>, relevant_profiles |-> <<>>] }

\* the deception alerts a reported result may hold
ReportAlerts ==
    { [claim |-> <<"N","o"," ","a","d","d","e","d"," ","s","u","g","a","r">>, reality |-> <<"a","g","a","v","e"," ","n","e","c","t","a","r">>,
       concern_level |-> <<"h","i","g","h">>] }

\* the uncertainty flags: a complete dict and one without any key
ReportUncertainties ==
    { [ingredient |-> <<"n","a","t","u","r","a","l"," ","f","l","a","v","o","r","s">>, possible_concerns |-> << <<"g","a","r","l","i","c">>, <<"o","n","i","o","n">> >>,
       recommendation |-> <<"a","s","k"," ","t","h","e"," ","m","a","k","e","r">>],
      EmptyDict }

\* the smart swaps a reported result may hold
ReportSwaps ==
    { [avoid |-> <<"s","o","d","a">>, try_instead |-> <<"s","p","a","r","k","l","i","n","g"," ","w","a","t","e","r">>, reason |-> <<"n","o"," ","s","u","g","a","r">>] }

\* "2026-01-01T00:00:00"
SampleTimestamp == <<"2","0","2","6","-","0","1","-","0","1","T","0","0",":","0","0",":","0","0">>

ReportResults ==
    {[overall_verdict |-> v,
      confidence_score |-> 90,
      risk_flags |-> f,
      deception_alerts |-> a,
      uncertainty_flags |-> u,
      smart_swaps |-> w,
      summary |-> <<"O","n","e"," ","r","i","s","k"," ","f","o","u","n","d",".">>,
      analyzed_profiles |-> << <<"T","y","p","e"," ","2"," ","D","i","a","b","e","t","e","s">>, <<"C","u","s","t","o","m"," ","P","r","o","f","i","l","e">> >>,
      timestamp |-> SampleTimestamp] :
        v \in { <<"A","V","O","I","D">>, <<"M","A","Y","B","E">> },
        f \in ListsUpTo(ReportFlags, MaxReportItems),
        a \in ListsUpTo(ReportAlerts, MaxReportItems),
        u \in ListsUpTo(ReportUncertainties, 1),
        w \in ListsUpTo(ReportSwaps, 1)}

InitReport ==
    /\ ParseIdle
    /\ ScreenIdle
    /\ AnalyzeIdle
    /\ NormIdle
    /\ ScoreIdle
    /\ GroqIdle
    /\ hash_seed = 0
    /\ report_result \in ReportResults
    /\ report_format \in {"markdown", "plain"}
    /\ report_lines = <<>>
    /\ report_pc = "ready"
    /\ RegistryIdle
    /\ SessionIdle
    /\ CustomIdle

\* generate_risk_report(result, format)
GenerateReport ==
    /\ report_pc = "ready"
    /\ report_lines' = GenerateRiskReport(report_result, report_format)
    /\ report_pc' = "generated"
    /\ UNCHANGED <<report_result, report_format>>
    /\ UNCHANGED hash_seed
    /\ UNCHANGED parseVars
    /\ UNCHANGED screenVars
    /\ UNCHANGED analyzeVars
    /\ UNCHANGED normVars
    /\ UNCHANGED scoreVars
    /\ UNCHANGED groqVars
    /\ UNCHANGED registryVars
    /\ UNCHANGED sessionVars
    /\ UNCHANGED customVars

NextReport == GenerateReport

SpecReport == InitReport /\ [][NextReport]_vars

---------------------------------------------------------------------------
(* The Streamlit session: one action per click, each followed by the run
   of main() that st.rerun() starts *)

\* the texts the ingredient box is given
IngredientTexts == {"", "Water, Sugar"}

\* the views the sidebar and the selector lead to, besides the scanner
OtherViews == {"history", "stats", "custom_profiles"}

\* st.session_state.scan_history[:20]
HistoryLimit == 20

\* the history_item add_to_history builds: its timestamp, the fields taken
\* from the result, and the ingredients
HistoryItem(ingredients, res, now) ==
    [timestamp |-> now, scan |-> res.scan, full_ingredients |-> ingredients]

\* an add_to_history that appends the item instead of inserting it first
AddToHistory_Append(history, item) ==
    LET inserted == Append(history, item)
    IN  SubSeq(inserted, 1, IF Len(inserted) < HistoryLimit THEN Len(inserted) ELSE HistoryLimit)

\* add_to_history: scan_history.insert(0, history_item), then [:20]
AddToHistory(history, item) ==
    LET inserted == <<item>> \o history
    IN  SubSeq(inserted, 1, IF Len(inserted) < HistoryLimit THEN Len(inserted) ELSE HistoryLimit)

\* the part of main() that touches the history: render_results is run when
\* the scanner view holds a result, and records it unless history_added is
\* set or the ingredients are empty
RenderResults(view, res, ingredients, added, history, now) ==
    IF view = "main" /\ res # <<>> /\ ingredients # "" /\ ~added
    THEN [scan_history  |-> AddToHistory(history, HistoryItem(ingredients, res[1], now + 1)),
          history_added |-> TRUE,
          clock         |-> now + 1]
    ELSE [scan_history  |-> history,
          history_added |-> added,
          clock         |-> now]

\* the run of main() that follows a click, from the session state the
\* handler left
Rerun(view, res, ingredients, added, history) ==
    \E out \in {RenderResults(view, res, ingredients, added, history, clock)} :
        /\ scan_history' = out.scan_history
        /\ history_added' = out.history_added
        /\ clock' = out.clock

\* the state of a new session: init_session_state, the onboarding page shown
InitSession ==
    /\ ParseIdle
    /\ ScreenIdle
    /\ AnalyzeIdle
    /\ NormIdle
    /\ ScoreIdle
    /\ GroqIdle
    /\ ReportIdle
    /\ hash_seed = 0
    /\ RegistryIdle
    /\ SessionIdle
    /\ CustomIdle

\* "Get Started" on the onboarding page
DismissOnboarding ==
    /\ show_onboarding
    /\ show_onboarding' = FALSE
    /\ Rerun(current_view, analysis_result, ingredients_input, history_added, scan_history)
    /\ UNCHANGED <<current_view, analysis_result, ingredients_input, scans>>
    /\ UNCHANGED hash_seed
    /\ UNCHANGED parseVars
    /\ UNCHANGED screenVars
    /\ UNCHANGED analyzeVars
    /\ UNCHANGED normVars
    /\ UNCHANGED scoreVars
    /\ UNCHANGED groqVars
    /\ UNCHANGED reportVars
    /\ UNCHANGED registryVars
    /\ UNCHANGED customVars

\* the display names whose checkbox is checked
CheckedNames ==
    {name \in DOMAIN get_available_profiles :
        \E i \in DOMAIN selected_profile_types :
            selected_profile_types[i] = get_available_profiles[name]}

\* the user clicks the checkbox of one display name and the page is run
\* again; the selector is on the scanner view while no result is held
ToggleProfile ==
    /\ ~show_onboarding
    /\ current_view = "main"
    /\ analysis_result = <<>>
    /\ \E name \in DOMAIN get_available_profiles :
           LET checked == IF name \in CheckedNames
                          THEN CheckedNames \ {name}
                          ELSE CheckedNames \cup {name}
           IN  /\ Cardinality(checked) <= MaxSelected
               /\ selected_profile_types' = SelectedTypes(checked)
    /\ UNCHANGED hash_seed
    /\ UNCHANGED parseVars
    /\ UNCHANGED screenVars
    /\ UNCHANGED analyzeVars
    /\ UNCHANGED normVars
    /\ UNCHANGED scoreVars
    /\ UNCHANGED groqVars
    /\ UNCHANGED reportVars
    /\ UNCHANGED sessionVars
    /\ UNCHANGED customVars

\* render_text_input: the user types, pastes or empties the ingredient list
EnterIngredients ==
    /\ ~show_onboarding
    /\ current_view = "main"
    /\ analysis_result = <<>>
    /\ \E typed \in IngredientTexts :
           /\ ingredients_input' = typed
           /\ Rerun(current_view, analysis_result, typed, history_added, scan_history)
    /\ UNCHANGED <<show_onboarding, current_view, analysis_result, scans>>
    /\ UNCHANGED hash_seed
    /\ UNCHANGED parseVars
    /\ UNCHANGED screenVars
    /\ UNCHANGED analyzeVars
    /\ UNCHANGED normVars
    /\ UNCHANGED scoreVars
    /\ UNCHANGED groqVars
    /\ UNCHANGED reportVars
    /\ UNCHANGED registryVars
    /\ UNCHANGED customVars

\* render_analyze_button: the button is enabled with ingredients and a
\* built-in profile; analyze_ingredients returns a result, which is stored
\* before st.rerun(), or raises, which is reported with st.error
AnalyzeClick ==
    /\ ~show_onboarding
    /\ current_view = "main"
    /\ analysis_result = <<>>
    /\ ingredients_input # ""
    /\ selected_profile_types # <<>>
    /\ scans < MaxScans
    /\ \E outcome \in {"result", "raised"} :
           IF outcome = "result"
           THEN /\ analysis_result' = <<[scan |-> scans + 1]>>
                /\ scans' = scans + 1
                /\ Rerun(current_view, <<[scan |-> scans + 1]>>, ingredients_input,
                         history_added, scan_history)
           ELSE UNCHANGED <<analysis_result, scans, scan_history, history_added, clock>>
    /\ UNCHANGED <<show_onboarding, current_view, ingredients_input>>
    /\ UNCHANGED hash_seed
    /\ UNCHANGED parseVars
    /\ UNCHANGED screenVars
    /\ UNCHANGED analyzeVars
    /\ UNCHANGED normVars
    /\ UNCHANGED scoreVars
    /\ UNCHANGED groqVars
    /\ UNCHANGED reportVars
    /\ UNCHANGED registryVars
    /\ UNCHANGED customVars

\* "New Scan" under a shown result
NewScan ==
    /\ ~show_onboarding
    /\ current_view = "main"
    /\ analysis_result # <<>>
    /\ analysis_result' = <<>>
    /\ ingredients_input' = ""
    /\ Rerun(current_view, <<>>, "", FALSE, scan_history)
    /\ UNCHANGED <<show_onboarding, current_view, scans>>
    /\ UNCHANGED hash_seed
    /\ UNCHANGED parseVars
    /\ UNCHANGED screenVars
    /\ UNCHANGED analyzeVars
    /\ UNCHANGED normVars
    /\ UNCHANGED scoreVars
    /\ UNCHANGED groqVars
    /\ UNCHANGED reportVars
    /\ UNCHANGED registryVars
    /\ UNCHANGED customVars

\* render_sidebar: "Scanner"
SidebarScanner ==
    /\ ~show_onboarding
    /\ current_view' = "main"
    /\ analysis_result' = <<>>
    /\ Rerun("main", <<>>, ingredients_input, history_added, scan_history)
    /\ UNCHANGED <<show_onboarding, ingredients_input, scans>>
    /\ UNCHANGED hash_seed
    /\ UNCHANGED parseVars
    /\ UNCHANGED screenVars
    /\ UNCHANGED analyzeVars
    /\ UNCHANGED normVars
    /\ UNCHANGED scoreVars
    /\ UNCHANGED groqVars
    /\ UNCHANGED reportVars
    /\ UNCHANGED registryVars
    /\ UNCHANGED customVars

\* render_sidebar: "History", "Custom Profiles", "Insights"
SidebarNavigate ==
    /\ ~show_onboarding
    /\ \E view \in OtherViews :
           /\ current_view' = view
           /\ Rerun(view, analysis_result, ingredients_input, history_added, scan_history)
    /\ UNCHANGED <<show_onboarding, analysis_result, ingredients_input, scans>>
    /\ UNCHANGED hash_seed
    /\ UNCHANGED parseVars
    /\ UNCHANGED screenVars
    /\ UNCHANGED analyzeVars
    /\ UNCHANGED normVars
    /\ UNCHANGED scoreVars
    /\ UNCHANGED groqVars
    /\ UNCHANGED reportVars
    /\ UNCHANGED registryVars
    /\ UNCHANGED customVars

\* "Back to Scanner" of the history, insights and custom profiles views
BackToScanner ==
    /\ ~show_onboarding
    /\ current_view \in OtherViews
    /\ current_view' = "main"
    /\ Rerun("main", analysis_result, ingredients_input, history_added, scan_history)
    /\ UNCHANGED <<show_onboarding, analysis_result, ingredients_input, scans>>
    /\ UNCHANGED hash_seed
    /\ UNCHANGED parseVars
    /\ UNCHANGED screenVars
    /\ UNCHANGED analyzeVars
    /\ UNCHANGED normVars
    /\ UNCHANGED scoreVars
    /\ UNCHANGED groqVars
    /\ UNCHANGED reportVars
    /\ UNCHANGED registryVars
    /\ UNCHANGED customVars

\* render_history: "Clear History", offered while the history is not empty
ClearHistory ==
    /\ ~show_onboarding
    /\ current_view = "history"
    /\ scan_history # <<>>
    /\ Rerun(current_view, analysis_result, ingredients_input, history_added, <<>>)
    /\ UNCHANGED <<show_onboarding, current_view, analysis_result, ingredients_input, scans>>
    /\ UNCHANGED hash_seed
    /\ UNCHANGED parseVars
    /\ UNCHANGED screenVars
    /\ UNCHANGED analyzeVars
    /\ UNCHANGED normVars
    /\ UNCHANGED scoreVars
    /\ UNCHANGED groqVars
    /\ UNCHANGED reportVars
    /\ UNCHANGED registryVars
    /\ UNCHANGED customVars

NextSession ==
    \/ DismissOnboarding
    \/ ToggleProfile
    \/ EnterIngredients
    \/ AnalyzeClick
    \/ NewScan
    \/ SidebarScanner
    \/ SidebarNavigate
    \/ BackToScanner
    \/ ClearHistory

SpecSession == InitSession /\ [][NextSession]_vars

---------------------------------------------------------------------------
(* SpecHistory: scan_history under add_to_history and "Clear History" *)

\* one call add_to_history(ingredients, result, profiles)
AddToHistoryCall ==
    /\ clock < MaxAdds
    /\ \E ingredients \in IngredientTexts \ {""} :
           scan_history' = AddToHistory(scan_history,
                               HistoryItem(ingredients, [scan |-> scans + 1], clock + 1))
    /\ clock' = clock + 1
    /\ scans' = scans + 1
    /\ UNCHANGED <<show_onboarding, current_view, analysis_result, ingredients_input, history_added>>
    /\ UNCHANGED hash_seed
    /\ UNCHANGED parseVars
    /\ UNCHANGED screenVars
    /\ UNCHANGED analyzeVars
    /\ UNCHANGED normVars
    /\ UNCHANGED scoreVars
    /\ UNCHANGED groqVars
    /\ UNCHANGED reportVars
    /\ UNCHANGED registryVars
    /\ UNCHANGED customVars

NextHistory ==
    \/ DismissOnboarding
    \/ SidebarNavigate
    \/ BackToScanner
    \/ AddToHistoryCall
    \/ ClearHistory

SpecHistory == InitSession /\ [][NextHistory]_vars

---------------------------------------------------------------------------
(* SpecCustom: the custom profiles page *)

\* the names typed into the "Create Profile" form
ProfileNames == {"", "Gut", "Skin"}

\* the names of the templates list
Templates == <<"Migraine Prevention", "Low Histamine", "Anti-Inflammatory", "Clean Eating">>

\* hashlib.md5(name.encode()).hexdigest()[:6]: equal names have equal
\* digests; the digest of a name is written as the name in brackets
Md5Prefix(name) == <<"md5[", name, "]">>

\* list.remove(x): the list without the first occurrence of x
RemoveFirst(list, x) ==
    LET first == SetMin({i \in DOMAIN list : list[i] = x})
    IN  SubSeq(list, 1, first - 1) \o SubSeq(list, first + 1, Len(list))

\* "Create Profile": refused without a name or without any ingredient,
\* else the profile is appended and activated; its id is
\* f"custom_{len(custom_profiles)}_{digest}"
CreateProfile ==
    /\ ~show_onboarding
    /\ current_view = "custom_profiles"
    /\ Len(custom_profiles) < MaxCustom
    /\ Len(selected_custom_profiles) < MaxActive
    /\ \E profile_name \in ProfileNames, listed \in BOOLEAN :
           IF profile_name = "" \/ ~listed
           THEN UNCHANGED customVars
           ELSE \E new_profile \in {[id   |-> <<"custom", Decimal(Len(custom_profiles)), Md5Prefix(profile_name)>>,
                                     name |-> profile_name]} :
                    /\ custom_profiles' = Append(custom_profiles, new_profile)
                    /\ selected_custom_profiles' = Append(selected_custom_profiles, new_profile.id)
    /\ UNCHANGED hash_seed
    /\ UNCHANGED parseVars
    /\ UNCHANGED screenVars
    /\ UNCHANGED analyzeVars
    /\ UNCHANGED normVars
    /\ UNCHANGED scoreVars
    /\ UNCHANGED groqVars
    /\ UNCHANGED reportVars
    /\ UNCHANGED registryVars
    /\ UNCHANGED sessionVars

\* "Add <template>": refused when a profile of that name exists; the id
\* is f"custom_template_{digest}"
AddTemplate ==
    /\ ~show_onboarding
    /\ current_view = "custom_profiles"
    /\ Len(custom_profiles) < MaxCustom
    /\ Len(selected_custom_profiles) < MaxActive
    /\ \E i \in DOMAIN Templates :
           IF \A j \in DOMAIN custom_profiles : custom_profiles[j].name # Templates[i]
           THEN \E new_profile \in {[id   |-> <<"custom", <<"t","e","m","p","l","a","t","e">>, Md5Prefix(Templates[i])>>,
                                     name |-> Templates[i]]} :
                    /\ custom_profiles' = Append(custom_profiles, new_profile)
                    /\ selected_custom_profiles' = Append(selected_custom_profiles, new_profile.id)
           ELSE UNCHANGED customVars
    /\ UNCHANGED hash_seed
    /\ UNCHANGED parseVars
    /\ UNCHANGED screenVars
    /\ UNCHANGED analyzeVars
    /\ UNCHANGED normVars
    /\ UNCHANGED scoreVars
    /\ UNCHANGED groqVars
    /\ UNCHANGED reportVars
    /\ UNCHANGED registryVars
    /\ UNCHANGED sessionVars

\* "Active" / "Activate" of one listed profile
ToggleCustom ==
    /\ ~show_onboarding
    /\ current_view = "custom_profiles"
    /\ \E i \in DOMAIN custom_profiles :
           IF custom_profiles[i].id \in Range(selected_custom_profiles)
           THEN selected_custom_profiles' = RemoveFirst(selected_custom_profiles, custom_profiles[i].id)
           ELSE /\ Len(selected_custom_profiles) < MaxActive
                /\ selected_custom_profiles' = Append(selected_custom_profiles, custom_profiles[i].id)
    /\ UNCHANGED custom_profiles
    /\ UNCHANGED hash_seed
    /\ UNCHANGED parseVars
    /\ UNCHANGED screenVars
    /\ UNCHANGED analyzeVars
    /\ UNCHANGED normVars
    /\ UNCHANGED scoreVars
    /\ UNCHANGED groqVars
    /\ UNCHANGED reportVars
    /\ UNCHANGED registryVars
    /\ UNCHANGED sessionVars

\* the delete button of one listed profile
DeleteCustom ==
    /\ ~show_onboarding
    /\ current_view = "custom_profiles"
    /\ \E i \in DOMAIN custom_profiles :
           /\ custom_profiles' = SelectSeq(custom_profiles,
                                     LAMBDA p : p.id # custom_profiles[i].id)
           /\ selected_custom_profiles' =
                  IF custom_profiles[i].id \in Range(selected_custom_profiles)
                  THEN RemoveFirst(selected_custom_profiles, custom_profiles[i].id)
                  ELSE selected_custom_profiles
    /\ UNCHANGED hash_seed
    /\ UNCHANGED parseVars
    /\ UNCHANGED screenVars
    /\ UNCHANGED analyzeVars
    /\ UNCHANGED normVars
    /\ UNCHANGED scoreVars
    /\ UNCHANGED groqVars
    /\ UNCHANGED reportVars
    /\ UNCHANGED registryVars
    /\ UNCHANGED sessionVars

NextCustom ==
    \/ DismissOnboarding
    \/ SidebarNavigate
    \/ BackToScanner
    \/ CreateProfile
    \/ AddTemplate
    \/ ToggleCustom
    \/ DeleteCustom

SpecCustom == InitSession /\ [][NextCustom]_vars

---------------------------------------------------------------------------
(* Claims on analyze_ingredients *)

\* the call is over: it returned or an exception left it
Returned == an_pc = "returned"

\* the client the call ends up using is a GroqClient
UsesGroqClient ==
    \/ in_client = "GroqClient"
    \/ in_client = "None" /\ GROQ_API_KEY

\* no client can be obtained: none passed, none cached, no API key
NoClientObtainable ==
    in_client = "None" /\ client_singleton = "None" /\ ~GROQ_API_KEY

\* both validations pass
PassesValidation ==
    /\ Parse(in_ingredients) # <<>>
    /\ ~(in_user_profile.active_profiles = <<>> /\ in_user_profile.custom_restrictions = <<>>)

\* C1: analyze_ingredients never lets an exception escape: when the
\* collaborator's analyze call raises, or no client can be obtained, it
\* still returns an AnalysisResult with error = true whose message carries
\* the exception text.
C1_NoExceptionEscapes ==
    Returned =>
        /\ raised = NoException
        /\ result # NoResult
        /\ (PassesValidation /\ in_client = "Stub" /\ in_stub.raises) =>
              (result.error /\ result.error_message = in_stub.text)
        /\ (PassesValidation /\ NoClientObtainable) => result.error

\* the raw inputs the claim lists: None, empty, whitespace-only,
\* delimiter-only, and a bare prefix
C2_EmptyInputs == {None, <<>>, <<" ">>, <<",", ";">>, SamplePrefixOnly}

\* C2: when parsing yields zero ingredients the result has error = true,
\* verdict CAUTION, confidence 0.0 and ingredient_count 0, and the
\* collaborator's analyze method is not invoked.
C2_EmptyInputShortCircuits ==
    (Returned /\ (in_ingredients \in C2_EmptyInputs \/ Parse(in_ingredients) = <<>>)) =>
        /\ raised = NoException
        /\ result # NoResult
        /\ result.error
        /\ result.overall_verdict = "CAUTION"
        /\ result.confidence_score = 0
        /\ result.ingredient_count = 0
        /\ analyze_calls = 0
        /\ api_calls = 0

\* a delimiter-only text was rejected although a profile was active and
\* the stub client would have answered
C2_Witness ==
    /\ Returned
    /\ in_ingredients = <<",", ";">>
    /\ in_user_profile.active_profiles # <<>>
    /\ in_client = "Stub"
    /\ ~in_stub.raises
    /\ result.error
    /\ analyze_calls = 0

\* C3: with at least one parsed ingredient and a profile that has neither
\* active profiles nor custom restrictions the result has error = true
\* (CAUTION, confidence 0.0) and a message distinct from the empty-input
\* one; the screener is not run and the collaborator is not invoked.  When
\* the input is empty too, the empty-input result is returned.
C3_NoProfileShortCircuits ==
    (/\ Returned
     /\ in_user_profile.active_profiles = <<>>
     /\ in_user_profile.custom_restrictions = <<>>) =>
        /\ raised = NoException
        /\ result # NoResult
        /\ result.error
        /\ result.overall_verdict = "CAUTION"
        /\ result.confidence_score = 0
        /\ ~screened
        /\ analyze_calls = 0
        /\ api_calls = 0
        /\ IF in_ingredients \in C2_EmptyInputs
           THEN /\ result.error_message = "No ingredients found"
                /\ result.ingredient_count = 0
           ELSE /\ result.error_message = "No profiles selected"
                /\ result.summary # <<"No ingredients could be parsed from the input.">>
                /\ result.ingredient_count > 0

\* a parsable text with an empty profile was rejected with the no-profile
\* message although the stub client would have answered
C3_Witness ==
    /\ Returned
    /\ in_ingredients = SampleWaterSugar
    /\ in_user_profile = UserProfile(<<>>, <<>>)
    /\ in_client = "Stub"
    /\ ~in_stub.raises
    /\ result.error_message = "No profiles selected"
    /\ result.ingredient_count = 3

\* the collaborator, asked, would answer without an error
CollaboratorWouldSucceed ==
    \/ in_client = "Stub" /\ ~in_stub.raises /\ ~Get(in_stub.returns, "error", FALSE)
    \/ UsesGroqClient /\ api_script[1].kind = "response"

\* C4: a profile with no active profiles but at least one custom
\* restriction is valid for analysis: it is not rejected for a missing
\* profile, the request is delegated to the semantic analyzer, and a
\* successful analyzer response yields a result with error = false.
C4_CustomOnlyProfileIsAnalyzed ==
    (/\ Returned
     /\ Parse(in_ingredients) # <<>>
     /\ in_user_profile.active_profiles = <<>>
     /\ in_user_profile.custom_restrictions # <<>>
     /\ CollaboratorWouldSucceed) =>
        /\ raised = NoException
        /\ result # NoResult
        /\ analyze_calls = 1
        /\ UsesGroqClient => api_calls >= 1
        /\ ~result.error

\* the verdict the collaborator's answer carries, Absent when it has none
AnsweredVerdict ==
    IF in_client = "Stub"
    THEN Get(in_stub.returns, "overall_verdict", Absent)
    ELSE Absent

\* C5: every AnalysisResult returned has overall_verdict in
\* {SAFE, CAUTION, AVOID}: a collaborator response whose verdict is missing
\* or any other string yields CAUTION.
C5_VerdictIsValid ==
    (Returned /\ raised = NoException) =>
        /\ result.overall_verdict \in {"SAFE", "CAUTION", "AVOID"}
        /\ (/\ PassesValidation
            /\ in_client = "Stub"
            /\ ~in_stub.raises
            /\ ~Get(in_stub.returns, "error", FALSE)
            /\ AnsweredVerdict \notin {"SAFE", "CAUTION", "AVOID"}) =>
              result.overall_verdict = "CAUTION"

\* the dict the collaborator returned in this call
CollaboratorReply ==
    CollaboratorAnalyze(IF in_client = "Stub" THEN "Stub" ELSE "GroqClient",
                        in_ingredients, in_user_profile, in_stub, api_script).dict

\* the call returned an AnalysisResult with error = false
Successful ==
    /\ Returned
    /\ raised = NoException
    /\ result # NoResult
    /\ ~result.error

\* C11: the output of quick_screen is never merged into the final result:
\* on a successful analysis risk_flags holds exactly one RiskFlag per
\* risk-flag record the collaborator returned, in the collaborator's order,
\* whatever quick_screen returned.
C11_OnlyCollaboratorFlags ==
    Successful =>
        LET records == Get(CollaboratorReply, "risk_flags", <<>>)
        IN  /\ Len(result.risk_flags) = Len(records)
            /\ \A i \in 1..Len(records) :
                   /\ result.risk_flags[i].ingredient = Get(records[i], "ingredient", "Unknown")
                   /\ result.risk_flags[i].risk_type = Get(records[i], "risk_type", "unknown")
                   /\ result.risk_flags[i].severity = Get(records[i], "severity", "medium")
                   /\ result.risk_flags[i].explanation = Get(records[i], "explanation", "")

\* quick_screen flagged "Agave Nectar" for a diabetic profile, the stub
\* client reported only "Sugar", and the result holds only the stub's flag
C11_Witness ==
    /\ Successful
    /\ in_ingredients = SampleAgave
    /\ in_user_profile.active_profiles = <<"TYPE_2_DIABETES">>
    /\ in_client = "Stub"
    /\ rule_flags # <<>>
    /\ Len(result.risk_flags) = 1
    /\ result.risk_flags[1].ingredient = "Sugar"

\* the end-to-end scenario: "Water, Sugar, Wheat Flour", TYPE_2_DIABETES,
\* a stub client that returns one risk flag on "Sugar"
SugarScenario ==
    /\ in_ingredients = SampleWaterSugar
    /\ in_user_profile = UserProfile(<<"TYPE_2_DIABETES">>, <<>>)
    /\ in_client = "Stub"
    /\ ~in_stub.raises
    /\ ~Get(in_stub.returns, "error", FALSE)
    /\ Get(in_stub.returns, "risk_flags", <<>>) = <<SugarRecord>>

\* C12: on every path the result's ingredient_count is the number of tokens
\* parse returns for the raw input; on every path that reaches the
\* collaborator analyzed_profiles is the profile's display names; the
\* scenario gives exactly one RiskFlag, on "Sugar", and ingredient_count 3.
C12_CountAndProfiles ==
    (Returned /\ raised = NoException) =>
        /\ result.ingredient_count = Len(Parse(in_ingredients))
        /\ analyze_calls > 0 =>
               result.analyzed_profiles = get_display_names(in_user_profile)
        /\ SugarScenario =>
               /\ Len(result.risk_flags) = 1
               /\ result.risk_flags[1].ingredient = "Sugar"
               /\ result.ingredient_count = 3
               /\ result.analyzed_profiles =
                      << <<"T","y","p","e"," ","2"," ","D","i","a","b","e","t","e","s">> >>

\* the scenario was run and returned its one flag
C12_Witness ==
    /\ Returned
    /\ SugarScenario
    /\ analyze_calls = 1
    /\ result.ingredient_count = 3
    /\ result.risk_flags[1].ingredient = "Sugar"

\* C20: every AnalysisResult returned has confidence_score within [0, 1]
\* (0..100 hundredths): a missing collaborator value is defaulted and one
\* outside the range is clamped into it.
C20_ConfidenceInRange ==
    (Returned /\ raised = NoException) =>
        /\ result.confidence_score >= 0
        /\ result.confidence_score <= 100

\* C23: analyze_ingredients is a linear pipeline with no retry: the
\* screener runs before the collaborator is asked, the collaborator's
\* analyze method is invoked at most once per call and exactly once when
\* both validations pass, and exactly one AnalysisResult is returned.
C23_LinearPipeline ==
    Returned =>
        /\ analyze_calls <= 1
        /\ analyze_calls = 1 => screened
        /\ screened => PassesValidation
        /\ PassesValidation => (screened /\ analyze_calls = 1)
        /\ result # NoResult
        /\ raised = NoException

\* the call returned an AnalysisResult with error = true
Failed ==
    /\ Returned
    /\ raised = NoException
    /\ result # NoResult
    /\ result.error

\* C25: every AnalysisResult with error = true has overall_verdict CAUTION,
\* confidence_score 0.0, empty risk_flags, deception_alerts,
\* uncertainty_flags and smart_swaps, and a non-null error_message; every
\* result with error = false has error_message null.
C25_FailureShape ==
    /\ Failed =>
           /\ result.overall_verdict = "CAUTION"
           /\ result.confidence_score = 0
           /\ result.risk_flags = <<>>
           /\ result.deception_alerts = <<>>
           /\ result.uncertainty_flags = <<>>
           /\ result.smart_swaps = <<>>
           /\ result.error_message # NoneText
    /\ Successful => result.error_message = NoneText

\* the value converted from field f of record rec: the field when present,
\* the default otherwise
Converted(rec, f, default) == IF f \in DOMAIN rec THEN rec[f] ELSE default

\* C26: when collaborator records are converted, a missing field gets its
\* named default and a present field is copied unchanged: a risk flag
\* without ingredient gets "Unknown", without severity "medium", without
\* risk_type "unknown", without relevant_profiles the empty list; a
\* deception alert without concern_level gets "medium".
C26_RecordDefaults ==
    Successful =>
        LET flags  == Get(CollaboratorReply, "risk_flags", <<>>)
            alerts == Get(CollaboratorReply, "deception_alerts", <<>>)
        IN  /\ DOMAIN result.risk_flags = DOMAIN flags
            /\ DOMAIN result.deception_alerts = DOMAIN alerts
            /\ \A i \in DOMAIN flags :
                   /\ result.risk_flags[i].ingredient = Converted(flags[i], "ingredient", "Unknown")
                   /\ result.risk_flags[i].severity = Converted(flags[i], "severity", "medium")
                   /\ result.risk_flags[i].risk_type = Converted(flags[i], "risk_type", "unknown")
                   /\ result.risk_flags[i].relevant_profiles =
                          Converted(flags[i], "relevant_profiles", <<>>)
                   /\ result.risk_flags[i].explanation = Converted(flags[i], "explanation", "")
            /\ \A i \in DOMAIN alerts :
                   /\ result.deception_alerts[i].claim = Converted(alerts[i], "claim", "")
                   /\ result.deception_alerts[i].concern_level =
                          Converted(alerts[i], "concern_level", "medium")

\* a stub client returned a risk flag with only an explanation and a
\* deception alert with only a claim; the result carries the defaults
C26_Witness ==
    /\ Successful
    /\ in_client = "Stub"
    /\ Get(in_stub.returns, "risk_flags", <<>>) = <<ExplanationOnly>>
    /\ result.risk_flags[1].ingredient = "Unknown"
    /\ result.risk_flags[1].severity = "medium"
    /\ result.risk_flags[1].explanation = "raises blood glucose"
    /\ result.deception_alerts[1].claim = "No added sugar"
    /\ result.deception_alerts[1].concern_level = "medium"

---------------------------------------------------------------------------
(* Parenthesis structure of a text, independent of the scan *)

\* '(' minus ')' among s[a..b]
Balance(s, a, b) ==
    Cardinality({i \in a..b : s[i] = "("}) - Cardinality({i \in a..b : s[i] = ")"})

\* the ')' at k closes the '(' at j
Matches(s, j, k) ==
    /\ j < k
    /\ s[j] = "("
    /\ s[k] = ")"
    /\ Balance(s, j + 1, k - 1) = 0
    /\ \A m \in (j + 1)..(k - 1) : Balance(s, j + 1, m) >= 0

\* position i lies between a '(' and its matching ')'
InMatchedParens(s, i) ==
    \E j \in 1..(i - 1), k \in (i + 1)..Len(s) : Matches(s, j, k)

RECURSIVE OpenParens(_, _)
\* number of '(' still open after the first n characters of s; a ')' with
\* no open '(' closes nothing
OpenParens(s, n) ==
    IF n = 0 THEN 0
    ELSE LET d == OpenParens(s, n - 1)
         IN  IF s[n] = "(" THEN d + 1
             ELSE IF s[n] = ")" /\ d > 0 THEN d - 1
             ELSE d

\* the scan has just consumed a comma or a semicolon
AtDelimiter == scan_pc = "scan" /\ pos >= 1 /\ IsDelim(text[pos])

\* the delimiter just consumed ended the current token
TokenEnded == scan.current = <<>>

---------------------------------------------------------------------------
(* Claims on IngredientParser.parse *)

\* C6: parse splits at a comma or semicolon only when the parenthesis
\* nesting depth is 0: a delimiter between a '(' and its matching ')' never
\* ends a token, every delimiter at depth 0 does, and
\* parse("Flour (Wheat, Niacin), Water") = ["Flour (Wheat, Niacin)", "Water"].
C6_SplitOnlyOutsideParens ==
    /\ AtDelimiter =>
          /\ TokenEnded => scan.paren_depth = 0
          /\ InMatchedParens(text, pos) => ~TokenEnded
          /\ scan.paren_depth = 0 => TokenEnded
    /\ (scan_pc = "done" /\ raw_ingredients = SampleFlour) =>
          scan.ingredients =
              << <<"F","l","o","u","r"," ","(","W","h","e","a","t",","," ","N","i","a","c","i","n",")">>,
                 <<"W","a","t","e","r">> >>

\* C7: the nesting depth never becomes negative, so a comma or semicolon
\* outside any open parenthesis still splits after an unmatched ')':
\* parse("A), B, C") yields three tokens.
C7_UnbalancedNeverBlocksSplitting ==
    /\ scan.paren_depth >= 0
    /\ (AtDelimiter /\ OpenParens(text, pos) = 0) => TokenEnded
    /\ (scan_pc = "done" /\ raw_ingredients = SampleUnbalanced) =>
          Len(scan.ingredients) = 3

\* parse has got past its early return and prefix removal
Entered == scan_pc \in {"scan", "done"} /\ ~Falsy(raw_ingredients)

\* s with the one recognized prefix it begins with removed, s when it
\* begins with none
WithoutFirstPrefix(s) ==
    IF RemovePrefix(s, PrefixIngredient) # s
    THEN RemovePrefix(s, PrefixIngredient)
    ELSE RemovePrefix(s, PrefixContain)

\* C17: parse strips exactly one recognized leading prefix ("Ingredients:"
\* or "Contains:", case-insensitive) when present and no more:
\* parse("Ingredients: A, B") = ["A", "B"], and of two recognized prefixes
\* in a row only the first is removed.
C17_OnePrefixStripped ==
    /\ Entered => text = WithoutFirstPrefix(Strip(raw_ingredients))
    /\ (scan_pc = "done" /\ raw_ingredients = SampleOnePrefix) =>
           scan.ingredients = << <<"A">>, <<"B">> >>

\* parse has returned
ParseDone == scan_pc = "done"

\* the text after the last comma or semicolon of s
FinalSegment(s) ==
    LET delims == {i \in 1..Len(s) : IsDelim(s[i])}
    IN  IF delims = {} THEN s ELSE SubSeq(s, SetMax(delims) + 1, Len(s))

\* t ends with s
EndsWith(t, s) ==
    /\ Len(s) <= Len(t)
    /\ SubSeq(t, Len(t) - Len(s) + 1, Len(t)) = s

\* C18: parse is total: it returns a list for every input, the empty list
\* for the empty string, never an empty or whitespace-only token, every
\* token without leading or trailing whitespace, and the final segment
\* after the last delimiter whenever it is non-empty, also when it ends
\* inside an unclosed parenthesis.
C18_ParseTotal ==
    /\ scan_pc \in {"start", "scan", "done"}
    /\ pos \in 0..Len(text)
    /\ Falsy(raw_ingredients) => scan_pc \in {"start", "done"}
    /\ ParseDone =>
        /\ raw_ingredients = <<>> => scan.ingredients = <<>>
        /\ \A i \in 1..Len(scan.ingredients) :
               /\ scan.ingredients[i] # <<>>
               /\ ~IsSpace(scan.ingredients[i][1])
               /\ ~IsSpace(scan.ingredients[i][Len(scan.ingredients[i])])
        /\ Strip(FinalSegment(text)) # <<>> =>
               /\ scan.ingredients # <<>>
               /\ EndsWith(scan.ingredients[Len(scan.ingredients)],
                           Strip(FinalSegment(text)))

\* "a,(a" was parsed: the segment after the comma ends inside an unclosed
\* parenthesis and was emitted
C18_Witness ==
    /\ ParseDone
    /\ raw_ingredients = <<"a", ",", "(", "a">>
    /\ scan.paren_depth = 1
    /\ scan.ingredients = << <<"a">>, <<"(", "a">> >>

RECURSIVE InOrderFrom(_, _, _)
\* the tokens occur in s as substrings, one after the other, from
\* position `from` on
InOrderFrom(tokens, s, from) ==
    \/ tokens = <<>>
    \/ \E a \in from..(Len(s) - Len(Head(tokens)) + 1) :
           /\ SubSeq(s, a, a + Len(Head(tokens)) - 1) = Head(tokens)
           /\ InOrderFrom(Tail(tokens), s, a + Len(Head(tokens)))

\* C19: the tokens parse returns are substrings of the input in their
\* original casing and in their original left-to-right order; parse folds
\* no case and removes no parenthetical content.
C19_TokensAreSubstrings ==
    (ParseDone /\ ~Falsy(raw_ingredients)) =>
        InOrderFrom(scan.ingredients, raw_ingredients, 1)

\* "Flour (Wheat, Niacin), Water" was parsed into its two tokens, case and
\* parenthetical kept
C19_Witness ==
    /\ ParseDone
    /\ raw_ingredients = SampleFlour
    /\ scan.ingredients =
           << SubSeq(SampleFlour, 1, 21), SubSeq(SampleFlour, 24, 28) >>

---------------------------------------------------------------------------
(* Claims on RuleBasedChecker.quick_screen *)

\* number of times x occurs in the list l
Occurrences(x, l) == Cardinality({i \in 1..Len(l) : l[i] = x})

\* the returned flags that name ingredient x and carry risk type t
FlagsFor(x, t) ==
    {i \in 1..Len(rule_flags) : rule_flags[i].ingredient = x /\ rule_flags[i].type = t}

\* the keywords of a category that are substrings of the normalized ingredient
Matching(cat, x) ==
    LET normalized == Normalize(x)
    IN  {kw \in Range(Keywords(cat)) : Contains(kw, normalized)}

\* C8: for one ingredient occurrence and one category quick_screen emits at
\* most one flag, however many keywords of the category match; an ingredient
\* may still get one flag from each of several enabled categories.
C8_AtMostOneFlagPerCategory ==
    screen_calls >= 1 =>
        /\ \A x \in Range(screen_ingredients), cat \in Range(Categories) :
              Cardinality(FlagsFor(x, FlagType(cat))) <= Occurrences(x, screen_ingredients)
        /\ Len(rule_flags) <= Len(Categories) * Len(screen_ingredients)

\* an ingredient occurring once that several sugar keywords match got exactly
\* one sugar flag, and a flag of a second category too
C8_Witness ==
    /\ screen_calls >= 1
    /\ \E x \in Range(screen_ingredients) :
          /\ Occurrences(x, screen_ingredients) = 1
          /\ Cardinality(Matching("sugar", x)) >= 2
          /\ Cardinality(FlagsFor(x, "hidden_sugar")) = 1
          /\ Cardinality(FlagsFor(x, "high_fodmap")) = 1

\* C9: quick_screen is deterministic: for fixed (ingredients, profile) every
\* invocation returns the identical list of flags, with the same matched
\* keyword in each flag.
C9_ScreenIsDeterministic ==
    screen_calls >= 2 => rule_flags = prev_flags

\* the profile types the claim names for each category
C10_GatingProfiles(cat) ==
    CASE cat = "sugar"       -> {"TYPE_2_DIABETES", "PCOS", "KETO"}
      [] cat = "seed_oil"    -> {"AVOID_SEED_OILS"}
      [] cat = "high_fodmap" -> {"IBS_LOW_FODMAP"}
      [] cat = "gluten"      -> {"CELIAC"}

\* C10: quick_screen emits a flag of a category for an ingredient exactly when
\* the category is enabled by the active profiles and some keyword of the
\* category is a substring of the normalized ingredient; with no gating
\* profile active the result is empty.
C10_FlagIffEnabledAndMatch ==
    screen_calls >= 1 =>
        /\ \A x \in Range(screen_ingredients), cat \in Range(Categories) :
              FlagsFor(x, FlagType(cat)) # {}
                  <=> /\ C10_GatingProfiles(cat) \cap Range(screen_profile.active_profiles) # {}
                      /\ Matching(cat, x) # {}
        /\ \A i \in 1..Len(rule_flags) :
              /\ rule_flags[i].ingredient \in Range(screen_ingredients)
              /\ \E cat \in Range(Categories) :
                    /\ rule_flags[i].type = FlagType(cat)
                    /\ rule_flags[i].match \in Range(Keywords(cat))
                    /\ Contains(rule_flags[i].match, Normalize(rule_flags[i].ingredient))
        /\ (\A cat \in Range(Categories) :
                C10_GatingProfiles(cat) \cap Range(screen_profile.active_profiles) = {})
              => rule_flags = <<>>

\* a call under PCOS alone that flagged a sugar, left a matching gluten
\* keyword unflagged for want of CELIAC, and left "Flour (Wheat)" unflagged
\* because normalize removed the parenthetical
C10_Witness ==
    /\ screen_calls >= 1
    /\ screen_profile.active_profiles = <<"PCOS">>
    /\ \E x \in Range(screen_ingredients) :
          FlagsFor(x, "hidden_sugar") # {} /\ Matching("gluten", x) # {}
    /\ \A i \in 1..Len(rule_flags) : rule_flags[i].type = "hidden_sugar"

\* the risk types in the order sugar, seed oil, high-FODMAP, gluten
TypeOrder == <<"hidden_sugar", "seed_oil", "high_fodmap", "contains_gluten">>

TypeRank(type) == CHOOSE i \in 1..Len(TypeOrder) : TypeOrder[i] = type

\* number of categories that are enabled and have a keyword in ingredient x
Hits(x) ==
    Cardinality({cat \in Range(Categories) :
        /\ C10_GatingProfiles(cat) \cap Range(screen_profile.active_profiles) # {}
        /\ Matching(cat, x) # {}})

RECURSIVE FlagsBefore(_)
\* number of flags due to the ingredients before position i
FlagsBefore(i) ==
    IF i = 1 THEN 0 ELSE FlagsBefore(i - 1) + Hits(screen_ingredients[i - 1])

\* C27: the flags quick_screen returns are ordered by the position of the
\* ingredient in the input list and, for one ingredient, by the category
\* order sugar, seed oil, high-FODMAP, gluten; each flag's ingredient field
\* holds the original un-normalized string, and a duplicated ingredient is
\* flagged once per occurrence.
C27_FlagOrder ==
    screen_calls >= 1 =>
        /\ Len(rule_flags) = FlagsBefore(Len(screen_ingredients) + 1)
        /\ \A i \in 1..Len(screen_ingredients) :
               \A k \in 1..Hits(screen_ingredients[i]) :
                   /\ rule_flags[FlagsBefore(i) + k].ingredient = screen_ingredients[i]
                   /\ k > 1 => TypeRank(rule_flags[FlagsBefore(i) + k - 1].type)
                                   < TypeRank(rule_flags[FlagsBefore(i) + k].type)

\* "Barley Malt" listed twice under TYPE_2_DIABETES and CELIAC: sugar and
\* gluten flags for the first occurrence, then the same for the second,
\* each naming the ingredient as written
C27_Witness ==
    /\ screen_calls >= 1
    /\ screen_ingredients =
           << <<"B","a","r","l","e","y"," ","M","a","l","t">>,
              <<"B","a","r","l","e","y"," ","M","a","l","t">> >>
    /\ screen_profile.active_profiles = <<"TYPE_2_DIABETES", "CELIAC">>
    /\ [i \in 1..Len(rule_flags) |-> rule_flags[i].type] =
           <<"hidden_sugar", "contains_gluten", "hidden_sugar", "contains_gluten">>
    /\ \A i \in 1..Len(rule_flags) : rule_flags[i].ingredient = screen_ingredients[1]

---------------------------------------------------------------------------
(* Claims on render_health_score *)

\* the score has been computed
Rendered == score_pc = "rendered"

\* number of displayed risk flags of one severity
CountSeverity(severity) ==
    Cardinality({i \in 1..Len(shown_result.risk_flags) :
                    shown_result.risk_flags[i].severity = severity})

\* 100 minus 25/15/8/3 per critical/high/medium/low flag and 5 per alert
FormulaScore ==
    100 - 25 * CountSeverity("critical") - 15 * CountSeverity("high")
        - 8 * CountSeverity("medium") - 3 * CountSeverity("low")
        - 5 * Len(shown_result.deception_alerts)

\* C13: the health score is 100 minus 25 per critical, 15 per high, 8 per
\* medium and 3 per low RiskFlag and minus 5 per DeceptionAlert, clamped to
\* [0, 100]; only flags of those four severities and deception alerts
\* reduce it.
C13_ScoreFollowsFormula ==
    Rendered =>
        /\ shown_score >= 0
        /\ shown_score <= 100
        /\ shown_score = (IF FormulaScore < 0 THEN 0 ELSE FormulaScore)

\* C14: the score maps to A for >= 80, B for >= 60, C for >= 40, D for
\* >= 20 and F below 20; no flags and no alerts give score 100 and grade A;
\* five critical flags give score 0 and grade F.
C14_GradeBoundaries ==
    Rendered =>
        /\ shown_grade = "A" <=> shown_score >= 80
        /\ shown_grade = "B" <=> (shown_score >= 60 /\ shown_score < 80)
        /\ shown_grade = "C" <=> (shown_score >= 40 /\ shown_score < 60)
        /\ shown_grade = "D" <=> (shown_score >= 20 /\ shown_score < 40)
        /\ shown_grade = "F" <=> shown_score < 20
        /\ (shown_result.risk_flags = <<>> /\ shown_result.deception_alerts = <<>>) =>
               (shown_score = 100 /\ shown_grade = "A")
        /\ (shown_result.risk_flags = [i \in 1..5 |-> FlagOf("critical")]
                /\ shown_result.deception_alerts = <<>>) =>
               (shown_score = 0 /\ shown_grade = "F")

\* five critical flags were rendered as score 0, grade F
C14_Witness ==
    /\ Rendered
    /\ shown_result.risk_flags = [i \in 1..5 |-> FlagOf("critical")]
    /\ shown_score = 0
    /\ shown_grade = "F"

---------------------------------------------------------------------------
(* Claims on IngredientParser.normalize *)

\* every ')' of s closes a '(' and every '(' is closed
Balanced(s) ==
    /\ Balance(s, 1, Len(s)) = 0
    /\ \A m \in 1..Len(s) : Balance(s, 1, m) >= 0

RECURSIVE OutsideParens(_, _)
\* the characters among the first n of s that are outside every
\* parenthesis pair, the parentheses themselves left out
OutsideParens(s, n) ==
    IF n = 0 THEN <<>>
    ELSE IF s[n] \notin {"(", ")"} /\ OpenParens(s, n) = 0
    THEN Append(OutsideParens(s, n - 1), s[n])
    ELSE OutsideParens(s, n - 1)

\* C15: normalize is idempotent: normalize(normalize(x)) = normalize(x)
\* for every ingredient string x, nested or unbalanced parentheses
\* included.
C15_NormalizeIdempotent ==
    [][norm_calls >= 1 => norm_out' = norm_out]_vars

\* a string with nested parentheses was normalized twice: the first call
\* changed it, the second did not
C15_Witness ==
    /\ norm_calls = 2
    /\ norm_ingredient = SampleNested
    /\ norm_out # norm_ingredient
    /\ norm_out = Normalize(Normalize(SampleNested))

\* C16: normalize removes all parenthetical content: for every ingredient
\* string with balanced parentheses, nested ones included, the normalized
\* string holds no parenthesis character and no text that was enclosed in
\* parentheses.
C16_ParentheticalRemoved ==
    (norm_calls = 1 /\ Balanced(norm_ingredient)) =>
        /\ \A i \in 1..Len(norm_out) : norm_out[i] \notin {"(", ")"}
        /\ norm_out = CollapseSpaces(Strip(Lower(
               OutsideParens(norm_ingredient, Len(norm_ingredient)))))

---------------------------------------------------------------------------
(* Claims on GroqClient.analyze_ingredients *)

\* the kind of the latest API attempt
LastKind == groq_log[Len(groq_log)].kind

\* C24: the Groq-backed collaborator makes at most MAX_RETRIES = 3 API
\* attempts per analysis and retries only after a JSON-decode or ValueError
\* failure; an attempt failing with any other exception, or the last failed
\* attempt, ends the call, and analyze_ingredients then returns an
\* error = true dictionary instead of raising.
C24_BoundedRetries ==
    /\ Len(groq_log) <= 3
    /\ groq_pc \in {"ready", "calling", "returned"}
    /\ \A i \in 1..(Len(groq_log) - 1) :
           groq_log[i].kind \in {"JSONDecodeError", "ValueError"}
    /\ (groq_pc = "calling" /\ groq_log # <<>>) =>
           /\ LastKind \in {"JSONDecodeError", "ValueError"}
           /\ Len(groq_log) < 3
    /\ (groq_pc = "returned" /\ groq_log # <<>>) =>
           /\ LastKind \in {"JSONDecodeError", "ValueError"} => Len(groq_log) = 3
           /\ LastKind # "response" => groq_reply["error"] = TRUE
           /\ LastKind = "response" => groq_reply["error"] = FALSE

\* two attempts failed to decode, the third failed with a ValueError, and
\* the call returned an error dictionary
C24_Witness ==
    /\ groq_pc = "returned"
    /\ Len(groq_log) = 3
    /\ groq_log[1].kind = "JSONDecodeError"
    /\ groq_log[2].kind = "JSONDecodeError"
    /\ groq_log[3].kind = "ValueError"
    /\ groq_reply["error"] = TRUE

---------------------------------------------------------------------------
(* Claims on generate_risk_report *)

\* some line of the report holds the str value
Reported(value) ==
    \E l \in 1..Len(report_lines) : Contains(value, report_lines[l])

\* C21: generate_risk_report preserves the result's content in both the
\* markdown and the plain format: every risk flag, deception alert,
\* uncertainty flag and smart swap of the result appears in the report, and
\* the report ends with a disclaimer line carrying the result's timestamp.
C21_ReportPreservesContent ==
    report_pc = "generated" =>
        /\ \A i \in DOMAIN report_result.risk_flags :
               /\ Reported(report_result.risk_flags[i].ingredient)
               /\ Reported(report_result.risk_flags[i].explanation)
        /\ \A i \in DOMAIN report_result.deception_alerts :
               /\ Reported(report_result.deception_alerts[i].claim)
               /\ Reported(report_result.deception_alerts[i].reality)
        /\ \A i \in DOMAIN report_result.uncertainty_flags :
               "ingredient" \in DOMAIN report_result.uncertainty_flags[i] =>
                   Reported(report_result.uncertainty_flags[i]["ingredient"])
        /\ \A i \in DOMAIN report_result.smart_swaps :
               /\ Reported(report_result.smart_swaps[i].avoid)
               /\ Reported(report_result.smart_swaps[i].try_instead)
               /\ Reported(report_result.smart_swaps[i].reason)
        /\ Contains(<<"D","i","s","c","l","a","i","m","e","r">>, report_lines[Len(report_lines)])
        /\ \E l \in (Len(report_lines) - 2)..Len(report_lines) :
               l >= 1 /\ Contains(report_result.timestamp, report_lines[l])

---------------------------------------------------------------------------
(* Claims on the profile registry *)

\* C22: the registry is a total mapping over the fixed enumeration: every
\* ProfileType has exactly one HealthProfile in HEALTH_PROFILES whose
\* profile_type equals its key, display names are pairwise distinct, and
\* get_available_profiles returns one entry per ProfileType.
C22_RegistryTotal ==
    /\ \A i \in DOMAIN ProfileType :
           /\ Cardinality({j \in DOMAIN RegistryEntries :
                              RegistryEntries[j].key = ProfileType[i]}) = 1
           /\ ProfileType[i] \in DOMAIN HEALTH_PROFILES
           /\ HEALTH_PROFILES[ProfileType[i]].profile_type = ProfileType[i]
    /\ DOMAIN HEALTH_PROFILES = Range(ProfileType)
    /\ \A k1, k2 \in DOMAIN HEALTH_PROFILES :
           k1 # k2 => HEALTH_PROFILES[k1].display_name # HEALTH_PROFILES[k2].display_name
    /\ Cardinality(DOMAIN get_available_profiles) = Len(ProfileType)
    /\ Range(get_available_profiles) = Range(ProfileType)
    /\ \A i \in DOMAIN selected_profile_types :
           /\ selected_profile_types[i] \in Range(ProfileType)
           /\ \A j \in DOMAIN selected_profile_types :
                  i # j => selected_profile_types[i] # selected_profile_types[j]

\* "Celiac Disease (Gluten-Free)" and "Type 2 Diabetes" were checked and
\* the selector holds their two types, in registry order
C22_Witness ==
    selected_profile_types = <<"TYPE_2_DIABETES", "CELIAC">>

---------------------------------------------------------------------------
(* Claims on the session *)

\* a result is on the page: the scanner view holds an analysis result
Displayed ==
    /\ ~show_onboarding
    /\ current_view = "main"
    /\ analysis_result # <<>>

\* the entries of scan_history made from a result
RecordsOf(res) == {i \in DOMAIN scan_history : scan_history[i].scan = res.scan}

\* C28: every analysis result that is displayed is recorded in scan_history
\* exactly once, after any sequence of Analyze, New Scan, sidebar
\* Scanner/History navigation and Clear History actions, and history_added
\* is set while a result is shown.
C28_DisplayedRecordedOnce ==
    Displayed =>
        /\ history_added
        /\ Cardinality(RecordsOf(analysis_result[1])) = 1

\* C29: scan_history holds at most 20 entries, newest first: each add puts
\* the new entry at index 0 and drops the oldest beyond 20, the kept
\* entries keeping their order, so entry i is the i-th latest add.
C29_HistoryBounded ==
    /\ Len(scan_history) <= HistoryLimit
    /\ \A i \in DOMAIN scan_history : scan_history[i].timestamp = clock - i + 1

\* more adds than the limit were made and the history is full
C29_Witness ==
    /\ clock > HistoryLimit
    /\ Len(scan_history) = HistoryLimit

\* C30: the ids in custom_profiles are pairwise distinct,
\* selected_custom_profiles holds no id twice, and every id in
\* selected_custom_profiles is the id of a profile in custom_profiles.
C30_CustomConsistent ==
    /\ \A i, j \in DOMAIN custom_profiles :
           i # j => custom_profiles[i].id # custom_profiles[j].id
    /\ \A i, j \in DOMAIN selected_custom_profiles :
           i # j => selected_custom_profiles[i] # selected_custom_profiles[j]
    /\ \A i \in DOMAIN selected_custom_profiles :
           \E j \in DOMAIN custom_profiles :
               custom_profiles[j].id = selected_custom_profiles[i]

===========================================================================
